---- MODULE Spec2Model ----
(***************************************************************************)
(* Plugin lifecycle of ftrack Connect's PluginManager widget               *)
(* (apps/connect/source/ftrack_connect/plugin_manager/__init__.py).        *)
(*                                                                         *)
(* One UI thread runs the Qt event loop; refresh() and                     *)
(* on_apply_changes_confirmed_callback() each run on a background thread   *)
(* of their own (@asynchronous).  Signals emitted on a background thread   *)
(* reach their slots through the UI thread's event queue, in the order     *)
(* they were emitted.  A handler that shows a modal message box or calls   *)
(* the Plugin Processor keeps the UI thread until it returns.  A click of  *)
(* the user is delivered when the UI thread is idle, to the widget that is *)
(* then on top; events posted after the click wait behind it.              *)
(*                                                                         *)
(* The text of the progress overlay (_update_overlay, fed by               *)
(* installation_in_progress) is display only and is left out.              *)
(*                                                                         *)
(* fetchPlugins is served by the host application on the UI thread, which  *)
(* calls _on_plugin_fetch_callback there.  _on_show_welcome_callback       *)
(* returns at line 339 on every path that reaches it, so the welcome       *)
(* dialog is never executed and _on_install_all_callback has no caller.    *)
(***************************************************************************)
EXTENDS Naturals, Sequences, FiniteSets

\* ------------------------------------------------------------------ bounds
MaxRefresh == 2      \* refresh() calls in one process lifetime
MaxLiveRefresh == 1  \* refresh threads running at the same time
MaxApply == 1        \* apply_changes emissions (user-applied batches)
MaxRows == 2         \* entries of the remote catalog
MaxExceptions == 1   \* exceptions raised by the Plugin Processor, by
                     \* archive_legacy_plugin and by the usage tracker
MaxChunks == 2       \* chunks of one download response
MaxDownloads == 2    \* download attempts of one update dialog
MaxVersionLen == 3   \* characters of a version string
MaxLines == 6        \* lines of a release-notes text

Names == <<"p1", "p2", "p3", "p4">>

\* The release feed: entry i is plugin Names[i] at version 2; every second
\* entry comes from the pure-download catalog.
Feed == [i \in 1..MaxRows |->
           [name |-> Names[i], version |-> 2, download |-> (i % 2 = 0)]]

\* A feed of one release that is not installed yet, and the full feed.
RemoteCatalogs == { SubSeq(Feed, 1, 1), Feed }

Plugin(n, v, inc, dep) ==
    [name |-> n, version |-> v, incompatible |-> inc, deprecated |-> dep]

\* Contents of the plugin directory when the process starts.
InitialDisks ==
    { << >>,
      << Plugin("p1", 1, FALSE, FALSE), Plugin("b", 1, FALSE, TRUE),
         Plugin("a", 1, TRUE, FALSE) >>,
      << Plugin("a", 1, TRUE, TRUE) >> }

\* Values of FTRACK_CONNECT_AUTO_INSTALL_PLUGINS and
\* FTRACK_CONNECT_AUTO_UPDATE_PLUGINS in the host configuration.
Environments ==
    { [install |-> "", update |-> ""],
      [install |-> "true", update |-> "true"] }

VARIABLES
    environ,             \* host configuration (os.environ)
    disk,                \* plugin directory: installed plugins
    remote,              \* remote catalog of downloadable releases
    initialised,         \* self._initialised
    installed_plugins,   \* self._installed_plugins
    plugin_model,        \* self._plugin_list_widget.plugin_model rows
    plugins_to_install,  \* self._plugins_to_install
    apply_enabled,       \* self._apply_button enabled
    busy_overlay,        \* self._busy_overlay visible
    blocking_overlay,    \* self._blocking_overlay: "hidden", "done", "failed"
    queue,               \* UI thread's queue of posted events
    mpc,                 \* UI thread: where the running handler stands
    mloc,                \* UI thread: the running handler's locals
    rpc,                 \* refresh threads: next line to run
    apc,                 \* apply threads: next line to run
    aloc,                \* apply threads: locals
    restart_requested,   \* requestConnectRestart emitted
    last_answer,         \* the dialog answer or button click of the step
                         \* just taken, NoAnswer after any other step
    auto_runs,           \* calls of _on_auto_install_update_callback made by
                         \* _check_and_run_auto_operations
    overlap,             \* per running refresh thread, the user-applied
                         \* batches that were in flight when it was started
    exceptions,          \* exceptions raised so far
    host,                \* the process's platform and command line
    main,                \* main_connect: next line to run and its locals
    upd,                 \* the update dialog, its download attempt and
                         \* what it did to the machine
    call                 \* a call of one of the helper functions: its
                         \* arguments and, once it returned, its result

vars == << environ, disk, remote, initialised, installed_plugins, plugin_model,
           plugins_to_install, apply_enabled, busy_overlay,
           blocking_overlay, queue, mpc, mloc, rpc, apc, aloc,
           restart_requested, last_answer, auto_runs, overlap,
           exceptions, host, main, upd, call >>

world == << environ, remote, host, main, upd, call >>
widget == << installed_plugins, plugin_model, apply_enabled >>
overlays == << busy_overlay, blocking_overlay >>
workers == << rpc, apc, aloc >>
history == << restart_requested, auto_runs, overlap >>

RefreshIds == 1..MaxRefresh
ApplyIds == 1..MaxApply

None == "None"
NoAnswer == [box |-> "none", value |-> "none"]
\* Locals of the running UI handler: caller, todo (plugins_to_process),
\* processed_count, log (outcome per processed entry) and progress (the
\* calls of on_plugin_processed_callback) belong to
\* _on_auto_install_update_callback; inc (incompatible_plugin_names), dep
\* (deprecated_plugins) and ans_inc (the first prompt's answer) to
\* _on_apply_changes; calls lists the plugins handed to the Plugin
\* Processor since _on_plugin_fetch_callback was entered.
MainIdle == [caller |-> "none", todo |-> << >>, processed_count |-> 0,
             log |-> << >>, progress |-> << >>, calls |-> << >>,
             inc |-> << >>, dep |-> << >>, ans_inc |-> "none"]
\* Locals of on_apply_changes_confirmed_callback: archive (archive_plugins),
\* k (plugins archived), i (rows visited), exc (the exception caught); and
\* what is recorded of the batch: offered (a conflict prompt was shown),
\* batch (the rows checked when apply_changes was emitted), log (outcome
\* per processed row), signals (terminal signals emitted, with their
\* argument).
ApplyIdle == [archive |-> << >>, k |-> 0, i |-> 0, exc |-> "none",
              offered |-> FALSE, batch |-> << >>, log |-> << >>,
              signals |-> << >>]

NoDialog == last_answer' = NoAnswer

Event(t, a) == [type |-> t, arg |-> a]
Post(t, a) == queue' = Append(queue, Event(t, a))

\* An exception is raised (at most MaxExceptions in one run of the model).
Raises ==
    /\ exceptions < MaxExceptions
    /\ exceptions' = exceptions + 1

\* ------------------------------------------------------------- self-update
\* platform.system().lower(); "freebsd" stands for every system that is
\* neither macOS, Windows nor Linux.
Systems == {"darwin", "windows", "linux", "freebsd"}

\* The process: its platform and the --skip-version-check and --silent
\* arguments.
Hosts == [system : Systems, skip_version_check : BOOLEAN, silent : BOOLEAN]

\* A URL is the sequence of its parts; an extension and a trailing slash are
\* parts of their own, the empty sequence is the empty string.
BaseUrls == { << >>,
              <<"connect", "macos", ".dmg">>,
              <<"connect", "darwin", "/">> }

\* The release asset published for a platform id.
AssetUrl(id) ==
    <<"asset", id,
      IF id = "macos" THEN ".dmg" ELSE IF id = "windows" THEN ".exe"
      ELSE ".tar.gz">>

\* The download_urls mappings of a release: no asset, a macOS asset only, an
\* asset for each platform id.
DownloadUrls ==
    { [id \in ids |-> AssetUrl(id)] :
        ids \in { {}, {"macos"}, {"macos", "windows", "linux"} } }

\* What check_connect_version_update returns: message tells whether the
\* 'message' key is there.
UpdateInfos ==
    [has_update : BOOLEAN, message : BOOLEAN, download_url : BaseUrls,
     download_urls : DownloadUrls]

\* main_connect at its first line: pc is the next line to run, update_info
\* holds what check_connect_version_update returned (empty before it did),
\* pending_update_info holds _pending_update_info (empty for None), checks
\* counts the calls of check_connect_version_update, check_error tells
\* whether the except branch of line 129 ran, exit_requested whether the
\* process was asked to end (application.quit, sys.exit).
MainStart == [pc |-> "l103", update_info |-> << >>,
              pending_update_info |-> << >>, checks |-> 0,
              check_error |-> FALSE, plugin_directory |-> FALSE,
              application |-> FALSE, exit_requested |-> FALSE]
\* main_connect inside application.exec_().
MainRunning == [pc |-> "l226", update_info |-> << >>,
                pending_update_info |-> << >>, checks |-> 0,
                check_error |-> FALSE, plugin_directory |-> TRUE,
                application |-> TRUE, exit_requested |-> FALSE]

\* The update dialog before show_update_dialog is called.  pc is where the
\* UI thread stands in the dialog; attempts counts the calls of
\* _on_auto_update_clicked that created a temporary file, temp_files tells
\* for each of them whether the file is on disk; cancelled, download_url,
\* total_size, chunks (the sizes of the chunks fetched), written (the chunks
\* written to the file), callbacks (calls of progress_callback) and success
\* belong to the running attempt; cancel_at holds the number of chunks that
\* had been fetched when Cancel was clicked during the download; boxes
\* lists the message boxes shown, browser the URLs opened in the browser,
\* installer what was done with the artifact.
UpdClosed == [pc |-> "closed", user_choice |-> None, attempts |-> 0,
              progress_dialog |-> FALSE, cancelled |-> FALSE,
              cancel_at |-> << >>, download_url |-> << >>,
              total_size |-> 0, chunks |-> << >>, written |-> << >>,
              callbacks |-> 0, success |-> FALSE, temp_files |-> << >>,
              boxes |-> << >>, browser |-> << >>, installer |-> "none"]

\* No helper function is being called.
NoCall == [fn |-> "none"]

\* ------------------------------------------------------------ construction
\* The plugin manager as PluginManager.__init__ leaves it.
Constructed ==
    /\ initialised = FALSE
    /\ installed_plugins = None
    /\ plugin_model = << >>
    /\ plugins_to_install = << >>
    /\ apply_enabled = FALSE
    /\ busy_overlay = FALSE
    /\ blocking_overlay = "hidden"
    /\ queue = << >>
    /\ mpc = "idle"
    /\ mloc = MainIdle
    /\ rpc = [r \in RefreshIds |-> "unstarted"]
    /\ apc = [t \in ApplyIds |-> "unstarted"]
    /\ aloc = [t \in ApplyIds |-> ApplyIdle]
    /\ restart_requested = FALSE
    /\ last_answer = NoAnswer
    /\ auto_runs = 0
    /\ overlap = [r \in RefreshIds |-> {}]
    /\ exceptions = 0

\* The plugin manager of a process that is past its startup: the event loop
\* runs and no update dialog is open.
Init ==
    /\ environ \in Environments
    /\ disk \in InitialDisks
    /\ remote \in RemoteCatalogs
    /\ Constructed
    /\ host = [system |-> "linux", skip_version_check |-> TRUE,
               silent |-> FALSE]
    /\ main = MainRunning
    /\ upd = UpdClosed
    /\ call = NoCall

\* ---------------------------------------------------------------- helpers
\* The names of a sequence of plugins or rows.
NamesOf(s) == [i \in 1..Len(s) |-> s[i].name]

\* PluginManager._reset_plugin_list
ResetPluginList == plugins_to_install' = << >>

\* Items of the model whose check state is Checked (_enable_apply_button),
\* by name.
CheckedItems(model) == NamesOf(SelectSeq(model, LAMBDA row : row.checked))

\* PluginManager._get_incompatible_plugin_names
GetIncompatiblePluginNames(installed) ==
    NamesOf(SelectSeq(installed, LAMBDA p : p.incompatible))

\* PluginManager._get_deprecated_plugin_names
GetDeprecatedPluginNames(installed) ==
    NamesOf(SelectSeq(installed, LAMBDA p : p.deprecated))

\* The policy flags as the code sets them.
auto_install == "true"
auto_update == "true"

\* flag in ['true', '1', 'yes']
IsEnabling(flag) == flag \in {"true", "1", "yes"}

\* Plugin Status Classifier
Classify(installed, entry) ==
    LET same == SelectSeq(installed, LAMBDA p : p.name = entry.name)
    IN  IF same = << >>
        THEN IF entry.download THEN "DOWNLOAD" ELSE "NEW"
        ELSE IF entry.version > same[1].version THEN "UPDATE"
             ELSE "UP_TO_DATE"

\* populate_installed_plugins + populate_download_plugins: one fresh,
\* unchecked row per remote entry, in feed order.
Populate(installed, catalog) ==
    [i \in 1..Len(catalog) |->
        [name |-> catalog[i].name, version |-> catalog[i].version,
         status |-> Classify(installed, catalog[i]), checked |-> FALSE]]

\* A selection that takes up-to-date rows as updates.
SelectedUpToDateToo(row, do_install, do_update) ==
    \/ row.status \in {"NEW", "DOWNLOAD"} /\ do_install
    \/ row.status \in {"UPDATE", "UP_TO_DATE"} /\ do_update

\* Whether the auto-processing loop takes a row.
Selected(row, do_install, do_update) ==
    \/ row.status = "NEW" /\ do_install
    \/ row.status = "UPDATE" /\ do_update
    \/ row.status = "DOWNLOAD" /\ do_install

\* A count that takes every row.
CountAllRows(model, do_install, do_update) == Len(model)

\* PluginManager._count_plugins_to_process
CountPluginsToProcess(model, do_install, do_update) ==
    Cardinality({i \in 1..Len(model) : Selected(model[i], do_install, do_update)})

\* plugins_to_process of _on_auto_install_update_callback
PluginsToProcess(model, do_install, do_update) ==
    SelectSeq(model, LAMBDA row : Selected(row, do_install, do_update))

\* Plugin Processor, successful run: the entry's files are in the plugin
\* directory at the entry's version (install or replace; idempotent).
Install(d, item) ==
    IF \E j \in 1..Len(d) : d[j].name = item.name
    THEN [j \in 1..Len(d) |->
            IF d[j].name = item.name
            THEN [d[j] EXCEPT !.version = item.version] ELSE d[j]]
    ELSE Append(d, Plugin(item.name, item.version, FALSE, FALSE))

\* archive_legacy_plugin, successful run: the plugin leaves the directory.
Archive(d, name) == SelectSeq(d, LAMBDA p : p.name # name)

\* Number of invocations of PluginProcessor.process in progress: the UI
\* thread's, and the apply threads'.
InProcess ==
    (IF mpc = "auto_process" THEN 1 ELSE 0)
        + Cardinality({t \in ApplyIds : apc[t] = "process"})

\* User-applied batches in flight: installation_started is emitted,
\* installation_done and installation_failed are not.
InFlight == {t \in ApplyIds : apc[t] \in {"archive", "loop", "process", "except"}}

\* ----------------------------------------------------------- refresh thread
\* A call of refresh(): the reset button, the release-type check box (which
\* clicks the reset button) or the blocking overlay's confirm button.
\* @asynchronous starts the body on a thread of its own.
Refresh(r) ==
    /\ ~restart_requested
    /\ rpc[r] = "unstarted"
    /\ \A q \in RefreshIds : q < r => rpc[q] # "unstarted"
    /\ Cardinality({q \in RefreshIds : rpc[q] \notin {"unstarted", "end"}})
           < MaxLiveRefresh
    /\ mpc = "idle"
    /\ blocking_overlay = "hidden" => ~busy_overlay
    /\ blocking_overlay' = "hidden"
    /\ rpc' = [rpc EXCEPT ![r] = "l228"]
    /\ overlap' = [overlap EXCEPT ![r] = InFlight]
    /\ UNCHANGED << exceptions, world, disk, initialised, widget, plugins_to_install,
                    busy_overlay, queue, mpc, mloc, apc, aloc,
                    restart_requested, auto_runs >>
    /\ NoDialog

RefreshStep(r, at, next) ==
    /\ rpc[r] = at
    /\ rpc' = [rpc EXCEPT ![r] = next]
    /\ overlap' = IF next = "end" THEN [overlap EXCEPT ![r] = {}] ELSE overlap
    /\ UNCHANGED << exceptions, world, disk, widget, overlays, mpc, mloc, apc, aloc,
                    restart_requested, auto_runs >>
    /\ NoDialog

\* self.refresh_started.emit(); self.fetchPlugins.emit(...);
\* self._enable_apply_button(None): three events posted to the UI thread,
\* the last by @qt_main_thread.
RefreshEmitStarted(r) ==
    /\ RefreshStep(r, "l228", "l231")
    /\ queue' = queue \o << Event("refresh_started", "none"),
                            Event("fetch", "none"),
                            Event("enable_apply", "none") >>
    /\ UNCHANGED << initialised, plugins_to_install >>

\* self._reset_plugin_list(), on the refresh thread itself, and
\* self.refresh_done.emit()
RefreshResetList(r) ==
    /\ RefreshStep(r, "l231", "l233")
    /\ ResetPluginList
    /\ Post("refresh_done", "none")
    /\ UNCHANGED initialised

\* self._initialised = False
RefreshClearInitialised(r) ==
    /\ RefreshStep(r, "l233", "end")
    /\ initialised' = FALSE
    /\ UNCHANGED << plugins_to_install, queue >>

\* ---------------------------------------------------------------- UI thread
\* The event loop takes the next posted event when no handler is running.
Takes(type) ==
    /\ mpc = "idle"
    /\ queue # << >>
    /\ Head(queue).type = type
    /\ queue' = Tail(queue)

\* refresh_started -> self._busy_overlay.show
OnRefreshStarted ==
    /\ Takes("refresh_started")
    /\ busy_overlay' = TRUE
    /\ UNCHANGED << exceptions, world, disk, initialised, widget, plugins_to_install,
                    blocking_overlay, mpc, mloc, workers, history >>
    /\ NoDialog

\* refresh_done -> self._busy_overlay.hide
OnRefreshDone ==
    /\ Takes("refresh_done")
    /\ busy_overlay' = FALSE
    /\ UNCHANGED << exceptions, world, disk, initialised, widget, plugins_to_install,
                    blocking_overlay, mpc, mloc, workers, history >>
    /\ NoDialog

\* PluginManager._enable_apply_button
EnableApplyButton(model) ==
    /\ plugins_to_install' = CheckedItems(model)
    /\ apply_enabled' = (CheckedItems(model) # << >>)

OnEnableApply ==
    /\ Takes("enable_apply")
    /\ EnableApplyButton(plugin_model)
    /\ UNCHANGED << exceptions, world, disk, initialised, installed_plugins, plugin_model,
                    overlays, mpc, mloc, workers, history >>
    /\ NoDialog

\* installation_started -> self._busy_overlay.show
OnInstallationStarted ==
    /\ Takes("installation_started")
    /\ busy_overlay' = TRUE
    /\ UNCHANGED << exceptions, world, disk, initialised, widget, plugins_to_install,
                    blocking_overlay, mpc, mloc, workers, history >>
    /\ NoDialog

\* installation_done -> _busy_overlay.hide, _show_user_message_done,
\* _reset_overlay
OnInstallationDone ==
    /\ Takes("installation_done")
    /\ busy_overlay' = FALSE
    /\ blocking_overlay' = "done"
    /\ ResetPluginList
    /\ UNCHANGED << exceptions, world, disk, initialised, widget, mpc, mloc, workers,
                    history >>
    /\ NoDialog

\* installation_failed -> _busy_overlay.hide, _show_user_message_failed
OnInstallationFailed ==
    /\ Takes("installation_failed")
    /\ busy_overlay' = FALSE
    /\ blocking_overlay' = "failed"
    /\ UNCHANGED << exceptions, world, disk, initialised, widget, plugins_to_install,
                    mpc, mloc, workers, history >>
    /\ NoDialog

\* The user checks row i: itemChanged -> _enable_apply_button.
UserToggle(i) ==
    /\ ~restart_requested
    /\ mpc = "idle"
    /\ blocking_overlay = "hidden" /\ ~busy_overlay
    /\ i \in 1..Len(plugin_model)
    /\ ~plugin_model[i].checked
    /\ plugin_model' = [plugin_model EXCEPT ![i].checked = TRUE]
    /\ EnableApplyButton(plugin_model')
    /\ UNCHANGED << exceptions, world, disk, initialised, installed_plugins,
                    overlays, queue, mpc, mloc, workers, history >>
    /\ NoDialog

\* self._on_auto_install_update_callback(...), up to the loop: the rows to
\* process are collected; with none the callback returns at once.
BeginAutoProcessing(model, caller, calls) ==
    [caller |-> caller,
     todo |-> PluginsToProcess(model, IsEnabling(auto_install),
                               IsEnabling(auto_update)),
     processed_count |-> 0, log |-> << >>, progress |-> << >>,
     calls |-> calls, inc |-> << >>, dep |-> << >>, ans_inc |-> "none"]

\* What _check_and_run_auto_operations does up to its first call or
\* return: "return" (gate closed), "process" (auto-processing starts) or
\* "mark" (nothing to process: on to self._initialised = True).
AutoDecision(gate, model) ==
    IF gate THEN "return"
    ELSE IF /\ (IsEnabling(auto_install) \/ IsEnabling(auto_update))
            /\ CountPluginsToProcess(model, IsEnabling(auto_install),
                                     IsEnabling(auto_update)) > 0
         THEN "process"
         ELSE "mark"

\* fetchPlugins -> PluginManager._on_plugin_fetch_callback, up to and
\* including the entry into _check_and_run_auto_operations.
OnPluginFetchCallback ==
    /\ Takes("fetch")
    /\ installed_plugins' = disk
    /\ plugin_model' = Populate(disk, remote)
    /\ LET decision == AutoDecision(initialised, plugin_model')
       IN  /\ mpc' = CASE decision = "return" -> "l246"
                       [] decision = "process" -> "auto_loop"
                       [] OTHER -> "l301"
           /\ mloc' = IF decision = "process"
                      THEN BeginAutoProcessing(plugin_model', "check", << >>)
                      ELSE MainIdle
           /\ auto_runs' = IF decision = "process"
                           THEN auto_runs + 1 ELSE auto_runs
    /\ UNCHANGED << exceptions, world, disk, initialised, plugins_to_install,
                    apply_enabled, overlays, workers, restart_requested,
                    overlap >>
    /\ NoDialog

\* Loop of _on_auto_install_update_callback: processed_count += 1 and the
\* call of self._plugin_processor.process(item).
AutoProcessCall ==
    /\ mpc = "auto_loop"
    /\ Len(mloc.log) < Len(mloc.todo)
    /\ mpc' = "auto_process"
    /\ mloc' = [mloc EXCEPT
                   !.processed_count = @ + 1,
                   !.calls = Append(@, mloc.todo[Len(mloc.log) + 1].name)]
    /\ UNCHANGED << exceptions, world, disk, initialised, widget, plugins_to_install,
                    overlays, queue, workers, history >>
    /\ NoDialog

\* on_plugin_processed_callback(processed_count, total_to_process, action,
\* f'{plugin_name} ({version_info})')
Progress(locals) ==
    LET item == locals.todo[Len(locals.log) + 1]
    IN  [index |-> locals.processed_count, total |-> Len(locals.todo),
         action |-> IF item.status = "UPDATE" THEN "Updating" ELSE "Installing",
         name |-> item.name, version |-> item.version]

\* process(item) returns; on_plugin_processed_callback is called.
AutoProcessReturn ==
    /\ mpc = "auto_process"
    /\ disk' = Install(disk, mloc.todo[Len(mloc.log) + 1])
    /\ mloc' = [mloc EXCEPT
                   !.log = Append(@, "ok"),
                   !.progress = Append(@, Progress(mloc))]
    /\ mpc' = "auto_loop"
    /\ UNCHANGED << exceptions, world, initialised, widget, plugins_to_install,
                    overlays, queue, workers, history >>
    /\ NoDialog

\* process(item) raises: except Exception ... continue.
AutoProcessRaise ==
    /\ mpc = "auto_process"
    /\ Raises
    /\ mloc' = [mloc EXCEPT !.log = Append(@, "raised")]
    /\ mpc' = "auto_loop"
    /\ UNCHANGED << world, disk, initialised, widget, plugins_to_install,
                    overlays, queue, workers, history >>
    /\ NoDialog

\* if processed_count > 0: self._show_auto_install_restart_message(...)
ShowsRestartMessage(processed_count) == processed_count > 0

\* Where the UI thread goes when _on_auto_install_update_callback returns.
AutoReturnTo(caller) == IF caller = "check" THEN "l301" ELSE "idle"

\* After the loop: self._reset_plugin_list(), then the restart message.
AutoFinish ==
    /\ mpc = "auto_loop"
    /\ Len(mloc.log) = Len(mloc.todo)
    /\ ResetPluginList
    /\ mpc' = IF ShowsRestartMessage(mloc.processed_count)
              THEN "restart_box" ELSE AutoReturnTo(mloc.caller)
    /\ mloc' = IF ShowsRestartMessage(mloc.processed_count) \/ mloc.caller = "check"
               THEN mloc ELSE MainIdle
    /\ UNCHANGED << exceptions, world, disk, initialised, widget, overlays, queue,
                    workers, history >>
    /\ NoDialog

\* A restart box that requests the restart whatever the answer.
RestartWhateverAnswer(answer) == TRUE

\* if answer == QtWidgets.QMessageBox.StandardButton.Yes
RestartConfirmed(answer) == answer = "Yes"

\* PluginManager._show_auto_install_restart_message: the user answers.
RestartAnswer(answer) ==
    /\ mpc = "restart_box"
    /\ last_answer' = [box |-> "restart", value |-> answer]
    /\ restart_requested' = (restart_requested \/ RestartConfirmed(answer))
    /\ mpc' = AutoReturnTo(mloc.caller)
    /\ mloc' = IF mloc.caller = "check" THEN mloc ELSE MainIdle
    /\ UNCHANGED << exceptions, world, disk, initialised, widget, plugins_to_install,
                    overlays, queue, workers, auto_runs, overlap >>

\* _check_and_run_auto_operations: self._initialised = True
MarkInitialised ==
    /\ mpc = "l301"
    /\ initialised' = TRUE
    /\ mpc' = "l246"
    /\ mloc' = [MainIdle EXCEPT !.calls = mloc.calls]
    /\ UNCHANGED << exceptions, world, disk, widget, plugins_to_install,
                    overlays, queue, workers, history >>
    /\ NoDialog

\* _on_plugin_fetch_callback: whether show_welcome is emitted.
EmitsShowWelcome(gate, installed, disable_startup_widget) ==
    ~gate /\ Len(installed) = 0 /\ ~disable_startup_widget

\* _on_plugin_fetch_callback after _check_and_run_auto_operations, and
\* _on_show_welcome_callback (a direct call on the UI thread): a warning
\* when nothing is downloadable, auto-processing otherwise.
WelcomeCheck(disable_startup_widget) ==
    /\ mpc = "l246"
    /\ LET welcome == EmitsShowWelcome(initialised, installed_plugins,
                                       disable_startup_widget)
           begun == BeginAutoProcessing(plugin_model, "welcome", mloc.calls)
           runs == welcome /\ Len(plugin_model) # 0 /\ begun.todo # << >>
       IN  /\ mpc' = IF runs THEN "auto_loop" ELSE "idle"
           /\ mloc' = IF runs THEN begun ELSE MainIdle
    /\ UNCHANGED << exceptions, world, disk, initialised, widget, plugins_to_install,
                    overlays, queue, workers, history >>
    /\ NoDialog

\* self._blocking_overlay.restart_button.clicked -> _on_restart_callback
OnRestartCallback ==
    /\ ~restart_requested
    /\ mpc = "idle"
    /\ blocking_overlay # "hidden"
    /\ last_answer' = [box |-> "restart_button", value |-> "clicked"]
    /\ restart_requested' = TRUE
    /\ UNCHANGED << exceptions, world, disk, initialised, widget, plugins_to_install,
                    overlays, queue, mpc, mloc, workers, auto_runs,
                    overlap >>

\* ------------------------------------------------------- _on_apply_changes
Answers == {"Yes", "No", "Cancel"}

\* First prompt: Yes keeps the list, No empties it, Cancel returns.
IncompatibleChoice(answer, names) ==
    [go |-> answer # "Cancel",
     names |-> IF answer = "No" THEN << >> ELSE names]

\* A second prompt whose else branch goes on instead of returning.
DeprecatedChoiceGoesOn(answer, names) ==
    [go |-> TRUE, names |-> IF answer = "No" THEN << >> ELSE names]

\* Second prompt: Yes keeps the list, No empties it, anything else returns.
DeprecatedChoice(answer, names) ==
    [go |-> answer \in {"Yes", "No"},
     names |-> IF answer = "No" THEN << >> ELSE names]

\* The two lists joined the other way round.
ArchiveListDeprecatedFirst(inc, dep) == dep \o inc

\* incompatible_plugin_names + deprecated_plugins
ArchiveList(inc, dep) == inc \o dep

IsNextApply(t) ==
    /\ apc[t] = "unstarted"
    /\ \A u \in ApplyIds : u < t => apc[u] # "unstarted"

\* self.apply_changes.emit(...): the slot on_apply_changes_confirmed_callback
\* is @asynchronous and starts its body on a thread of its own.
EmitApplyChanges(t, inc, dep, offered) ==
    /\ apc' = [apc EXCEPT ![t] = "l622"]
    /\ aloc' = [aloc EXCEPT ![t] =
                   [ApplyIdle EXCEPT !.archive = ArchiveList(inc, dep),
                                     !.offered = offered,
                                     !.batch = CheckedItems(plugin_model)]]
    /\ mpc' = "idle"
    /\ mloc' = MainIdle

\* self._apply_button.clicked -> _on_apply_changes, up to the first prompt
\* (or to the emission when no installed plugin conflicts).
OnApplyChanges(t) ==
    /\ ~restart_requested
    /\ mpc = "idle"
    /\ blocking_overlay = "hidden" /\ ~busy_overlay
    /\ apply_enabled
    /\ IsNextApply(t)
    /\ LET inc == GetIncompatiblePluginNames(installed_plugins)
           dep == GetDeprecatedPluginNames(installed_plugins)
       IN  IF inc # << >> \/ dep # << >>
           THEN /\ mpc' = IF inc # << >> THEN "incompat_box" ELSE "deprec_box"
                /\ mloc' = [MainIdle EXCEPT !.inc = inc, !.dep = dep]
                /\ UNCHANGED << apc, aloc >>
           ELSE EmitApplyChanges(t, inc, dep, FALSE)
    /\ UNCHANGED << exceptions, world, disk, initialised, widget,
                    plugins_to_install, overlays, queue, rpc, history >>
    /\ NoDialog

\* The user answers the incompatible-plugins prompt.
IncompatibleAnswer(t, answer) ==
    /\ mpc = "incompat_box"
    /\ IsNextApply(t)
    /\ last_answer' = [box |-> "incompatible", value |-> answer]
    /\ LET choice == IncompatibleChoice(answer, mloc.inc)
       IN  IF ~choice.go
           THEN /\ mpc' = "idle"
                /\ mloc' = MainIdle
                /\ UNCHANGED << apc, aloc >>
           ELSE IF mloc.dep # << >>
           THEN /\ mpc' = "deprec_box"
                /\ mloc' = [mloc EXCEPT !.inc = choice.names,
                                        !.ans_inc = answer]
                /\ UNCHANGED << apc, aloc >>
           ELSE EmitApplyChanges(t, choice.names, mloc.dep, TRUE)
    /\ UNCHANGED << exceptions, world, disk, initialised, widget,
                    plugins_to_install, overlays, queue, rpc, history >>

\* The user answers the deprecated-plugins prompt.
DeprecatedAnswer(t, answer) ==
    /\ mpc = "deprec_box"
    /\ IsNextApply(t)
    /\ last_answer' = [box |-> "deprecated", value |-> answer]
    /\ LET choice == DeprecatedChoice(answer, mloc.dep)
       IN  IF ~choice.go
           THEN /\ mpc' = "idle"
                /\ mloc' = MainIdle
                /\ UNCHANGED << apc, aloc >>
           ELSE EmitApplyChanges(t, mloc.inc, choice.names, TRUE)
    /\ UNCHANGED << exceptions, world, disk, initialised, widget,
                    plugins_to_install, overlays, queue, rpc, history >>

\* ------------------------------------- on_apply_changes_confirmed_callback
ApplyStep(t, at, next) ==
    /\ apc[t] = at
    /\ apc' = [apc EXCEPT ![t] = next]
    /\ UNCHANGED << world, initialised, widget, overlays, mpc, mloc, rpc,
                    history >>
    /\ NoDialog

\* Where the thread stands with k plugins archived: in the archive loop,
\* or past it in the loop over the rows.
AfterArchive(t, k) == IF k < Len(aloc[t].archive) THEN "archive" ELSE "loop"

\* self.installation_started.emit()
ApplyEmitStarted(t) ==
    /\ ApplyStep(t, "l622", AfterArchive(t, 0))
    /\ Post("installation_started", "none")
    /\ UNCHANGED << exceptions, disk, plugins_to_install, aloc >>

\* archive_legacy_plugin(plugin) returns.
ApplyArchiveReturn(t) ==
    /\ ApplyStep(t, "archive", AfterArchive(t, aloc[t].k + 1))
    /\ aloc[t].k < Len(aloc[t].archive)
    /\ disk' = Archive(disk, aloc[t].archive[aloc[t].k + 1])
    /\ aloc' = [aloc EXCEPT ![t].k = @ + 1]
    /\ UNCHANGED << exceptions, plugins_to_install, queue >>

\* archive_legacy_plugin(plugin) raises.
ApplyArchiveRaise(t) ==
    /\ ApplyStep(t, "archive", "except")
    /\ aloc[t].k < Len(aloc[t].archive)
    /\ Raises
    /\ aloc' = [aloc EXCEPT ![t].exc = "archive_legacy_plugin"]
    /\ UNCHANGED << disk, plugins_to_install, queue >>

\* Rows after the first `i` whose check state is Checked, as the model
\* stands.
CheckedAfter(i) == {j \in (i + 1)..Len(plugin_model) : plugin_model[j].checked}

Min(S) == CHOOSE x \in S : \A y \in S : x <= y

\* The loop over the rows, up to the next checked row:
\* installation_in_progress.emit(item), then the call of
\* self._plugin_processor.process(item).
ApplyProcessCall(t) ==
    /\ ApplyStep(t, "loop", "process")
    /\ CheckedAfter(aloc[t].i) # {}
    /\ aloc' = [aloc EXCEPT ![t].i = Min(CheckedAfter(aloc[t].i))]
    /\ UNCHANGED << exceptions, disk, plugins_to_install, queue >>

\* process(item) returns.
ApplyProcessReturn(t) ==
    /\ ApplyStep(t, "process", "loop")
    /\ disk' = Install(disk, plugin_model[aloc[t].i])
    /\ aloc' = [aloc EXCEPT ![t].log = Append(@, "ok")]
    /\ UNCHANGED << exceptions, plugins_to_install, queue >>

\* process(item) raises.
ApplyProcessRaise(t) ==
    /\ ApplyStep(t, "process", "except")
    /\ Raises
    /\ aloc' = [aloc EXCEPT ![t].exc = "process",
                            ![t].log = Append(@, "raised")]
    /\ UNCHANGED << disk, plugins_to_install, queue >>

\* No checked row is left: self.installation_done.emit()
ApplyEmitDone(t) ==
    /\ ApplyStep(t, "loop", "l633")
    /\ CheckedAfter(aloc[t].i) = {}
    /\ Post("installation_done", "none")
    /\ aloc' = [aloc EXCEPT ![t].signals =
                   Append(@, Event("installation_done", "none"))]
    /\ UNCHANGED << exceptions, disk, plugins_to_install >>

\* self._emit_downloaded_plugins(self._plugins_to_install) returns.
ApplyTrackReturn(t) ==
    /\ ApplyStep(t, "l633", "l634")
    /\ UNCHANGED << exceptions, disk, plugins_to_install, queue, aloc >>

\* self._emit_downloaded_plugins(self._plugins_to_install) raises.
ApplyTrackRaise(t) ==
    /\ ApplyStep(t, "l633", "except")
    /\ Raises
    /\ aloc' = [aloc EXCEPT ![t].exc = "_emit_downloaded_plugins"]
    /\ UNCHANGED << disk, plugins_to_install, queue >>

\* self._reset_plugin_list(), on the apply thread itself
ApplyResetList(t) ==
    /\ ApplyStep(t, "l634", "end")
    /\ ResetPluginList
    /\ UNCHANGED << exceptions, disk, queue, aloc >>

\* An except clause that swallows the exception.
ApplyExceptSilent(t) ==
    /\ ApplyStep(t, "except", "end")
    /\ UNCHANGED << exceptions, disk, plugins_to_install, queue, aloc >>

\* except: self.installation_failed.emit(traceback.format_exc())
ApplyExcept(t) ==
    /\ ApplyStep(t, "except", "end")
    /\ Post("installation_failed", aloc[t].exc)
    /\ aloc' = [aloc EXCEPT ![t].signals =
                   Append(@, Event("installation_failed", aloc[t].exc))]
    /\ UNCHANGED << exceptions, disk, plugins_to_install >>

\* ------------------------------------------------------------ specification
RefreshThread(r) ==
    \/ RefreshEmitStarted(r)
    \/ RefreshResetList(r)
    \/ RefreshClearInitialised(r)

ApplyThread(t) ==
    \/ ApplyEmitStarted(t)
    \/ ApplyArchiveReturn(t)
    \/ ApplyArchiveRaise(t)
    \/ ApplyProcessCall(t)
    \/ ApplyProcessReturn(t)
    \/ ApplyProcessRaise(t)
    \/ ApplyEmitDone(t)
    \/ ApplyTrackReturn(t)
    \/ ApplyTrackRaise(t)
    \/ ApplyResetList(t)
    \/ ApplyExcept(t)

UiThread ==
    \/ OnRefreshStarted
    \/ OnRefreshDone
    \/ OnEnableApply
    \/ OnInstallationStarted
    \/ OnInstallationDone
    \/ OnInstallationFailed
    \/ OnPluginFetchCallback
    \/ AutoProcessCall
    \/ AutoProcessReturn
    \/ AutoProcessRaise
    \/ AutoFinish
    \/ \E answer \in {"Yes", "No"} : RestartAnswer(answer)
    \/ MarkInitialised
    \/ \E disable_startup_widget \in BOOLEAN :
           WelcomeCheck(disable_startup_widget)

User ==
    \/ \E r \in RefreshIds : Refresh(r)
    \/ \E i \in 1..MaxRows : UserToggle(i)
    \/ \E t \in ApplyIds : OnApplyChanges(t)
    \/ \E t \in ApplyIds, answer \in Answers : IncompatibleAnswer(t, answer)
    \/ \E t \in ApplyIds, answer \in Answers : DeprecatedAnswer(t, answer)
    \/ OnRestartCallback

Next ==
    \/ User
    \/ UiThread
    \/ \E r \in RefreshIds : RefreshThread(r)
    \/ \E t \in ApplyIds : ApplyThread(t)

Spec == Init /\ [][Next]_vars

\* A started apply thread runs to its end: the scheduler does not starve
\* it, and a call it makes returns or raises.
FairSpec == Spec /\ \A t \in ApplyIds : WF_vars(ApplyThread(t))

\* ------------------------------------------------------------------ claims
\* C1: over any sequence of refresh() calls in one process lifetime,
\* _check_and_run_auto_operations calls _on_auto_install_update_callback
\* at most once.
AutoProcessingRunsAtMostOnce == auto_runs <= 1

\* C2: in every batch, a raise of the Plugin Processor on one entry does
\* not keep it from being invoked on the entries that follow.  The
\* auto-processing loop has an outcome for every entry it collected when it
\* is over; the apply thread, when it is in its except clause for a raise
\* of the Plugin Processor, has no checked row left after the one that
\* raised.
RaiseDoesNotAbortBatch ==
    /\ mpc = "restart_box" => Len(mloc.log) = Len(mloc.todo)
    /\ \A t \in ApplyIds :
           apc[t] = "except" /\ aloc[t].exc = "process"
               => CheckedAfter(aloc[t].i) = {}

\* C3: at most one invocation of PluginProcessor.process is in progress.
OneProcessorInvocationAtATime == InProcess <= 1

\* C4: a refresh() started while a user-applied batch is in flight
\* (installation_started emitted, installation_done and
\* installation_failed not) does not reset _plugins_to_install and does not
\* clear _initialised as long as that batch is in flight.
RefreshWaitsForBatch ==
    [][\A r \in RefreshIds :
          overlap[r] \cap InFlight # {}
              => ~(rpc[r] \in {"l231", "l233"} /\ rpc'[r] # rpc[r])]_vars

\* C5: every installation_started emitted by an apply thread is eventually
\* followed by installation_done or installation_failed of that thread,
\* whatever raised; installation_failed carries the detail of the exception
\* that was caught.
Started(t) == apc[t] \notin {"unstarted", "l622"}

Terminal(t) ==
    /\ aloc[t].signals # << >>
    /\ \A n \in 1..Len(aloc[t].signals) :
           aloc[t].signals[n].type = "installation_failed"
               => /\ aloc[t].exc # "none"
                  /\ aloc[t].signals[n].arg = aloc[t].exc

Conflicts(installed) ==
    \/ GetIncompatiblePluginNames(installed) # << >>
    \/ GetDeprecatedPluginNames(installed) # << >>

ChoiceOfferedBeforeProcessing ==
    /\ mpc = "auto_process" => ~Conflicts(installed_plugins)
    /\ \A t \in ApplyIds :
           apc[t] = "l622" /\ Conflicts(installed_plugins) => aloc[t].offered

\* C7: a step in which the user answers Cancel to the incompatible-plugins
\* prompt or to the deprecated-plugins prompt emits no apply_changes,
\* archives nothing, invokes no Plugin Processor, posts nothing, and leaves
\* _plugins_to_install, the installed plugins and the plugin directory as
\* they were; the handler is over.
Cancelled ==
    /\ last_answer.box \in {"incompatible", "deprecated"}
    /\ last_answer.value = "Cancel"

CancelHasNoSideEffects ==
    [][Cancelled' =>
          /\ mpc' = "idle"
          /\ UNCHANGED << apc, aloc, disk, queue, plugins_to_install,
                          installed_plugins, plugin_model, apply_enabled,
                          initialised >>]_vars

\* The deprecated-plugins prompt was cancelled after the incompatible
\* plugins were confirmed; no batch was started.
CancelledSecondPrompt ==
    /\ last_answer = [box |-> "deprecated", value |-> "Cancel"]
    /\ GetIncompatiblePluginNames(installed_plugins) # << >>
    /\ \A t \in ApplyIds : apc[t] = "unstarted"

\* The step in which apply_changes is emitted for batch t, and what the user
\* answered to each prompt by then ("none": the prompt was not shown).
Emission(t) == apc[t] = "unstarted" /\ apc'[t] = "l622"

AnswerIncompatible ==
    IF mpc = "incompat_box" THEN last_answer'.value ELSE mloc.ans_inc

AnswerDeprecated ==
    IF mpc = "deprec_box" THEN last_answer'.value ELSE "none"

Range(seq) == {seq[n] : n \in 1..Len(seq)}

\* The archive list by the answers: the incompatible names if the user chose
\* to archive them, followed by the deprecated names if the user chose to
\* archive them.
ArchiveByAnswers ==
    (IF AnswerIncompatible = "Yes"
     THEN GetIncompatiblePluginNames(installed_plugins) ELSE << >>)
    \o (IF AnswerDeprecated = "Yes"
        THEN GetDeprecatedPluginNames(installed_plugins) ELSE << >>)

\* The plugins the user chose to keep, in one prompt or the other.
KeptIncompatible ==
    IF AnswerIncompatible = "No"
    THEN Range(GetIncompatiblePluginNames(installed_plugins)) ELSE {}

KeptDeprecated ==
    IF AnswerDeprecated = "No"
    THEN Range(GetDeprecatedPluginNames(installed_plugins)) ELSE {}

BatchProceeds(t) ==
    /\ aloc'[t].archive = ArchiveByAnswers
    /\ aloc'[t].batch = CheckedItems(plugin_model)

\* C8, as stated: when apply_changes is emitted, the archive list is the
\* incompatible names (if archived) followed by the deprecated names (if
\* archived), no plugin the user chose to keep is in it, and the batch
\* starts with the checked entries.
KeptPluginNeverArchived ==
    [][\A t \in ApplyIds :
          Emission(t) =>
              /\ BatchProceeds(t)
              /\ (KeptIncompatible \cup KeptDeprecated)
                     \cap Range(aloc'[t].archive) = {}]_vars

\* C8, amended: when apply_changes is emitted, the archive list is the
\* incompatible names (if archived) followed by the deprecated names (if
\* archived) and the batch starts with the checked entries; a plugin kept
\* in one prompt is in the archive list only when the other prompt lists
\* it too and the user chose to archive there.
KeptPluginArchivedOnlyByOtherPrompt ==
    [][\A t \in ApplyIds :
          Emission(t) =>
              /\ BatchProceeds(t)
              /\ \A n \in KeptIncompatible \cap Range(aloc'[t].archive) :
                     /\ AnswerDeprecated = "Yes"
                     /\ n \in Range(GetDeprecatedPluginNames(installed_plugins))
              /\ \A n \in KeptDeprecated \cap Range(aloc'[t].archive) :
                     /\ AnswerIncompatible = "Yes"
                     /\ n \in Range(GetIncompatiblePluginNames(installed_plugins))]_vars

\* The user kept the incompatible plugins and archived the deprecated
\* ones, and every deprecated plugin is an incompatible one too: the batch
\* starts with the names the second prompt listed.
KeptInOnePromptArchivedByTheOther ==
    \E t \in ApplyIds :
        /\ apc[t] = "l622"
        /\ last_answer = [box |-> "deprecated", value |-> "Yes"]
        /\ aloc[t].archive # << >>
        /\ aloc[t].archive = GetDeprecatedPluginNames(installed_plugins)
        /\ Range(aloc[t].archive)
               \subseteq Range(GetIncompatiblePluginNames(installed_plugins))

\* C9: with both policies disabled in the host configuration
\* (FTRACK_CONNECT_AUTO_INSTALL_PLUGINS and
\* FTRACK_CONNECT_AUTO_UPDATE_PLUGINS not set to an enabling value), the
\* Plugin Processor is not invoked by auto-processing, which asks for no
\* confirmation.
PoliciesDisabled ==
    ~IsEnabling(environ.install) /\ ~IsEnabling(environ.update)

DisabledPoliciesNeverAutoProcess ==
    PoliciesDisabled => mpc # "auto_process"

\* C10: requestConnectRestart is emitted only in a step in which the user
\* answers Yes in the restart message box or clicks the restart button, and
\* the restart message box is shown only with processed_count > 0.
RestartOnlyOnConfirmation ==
    [][/\ restart_requested' # restart_requested
           => \/ last_answer' = [box |-> "restart", value |-> "Yes"]
              \/ last_answer' = [box |-> "restart_button", value |-> "clicked"]
       /\ mpc' = "restart_box" => mloc'.processed_count > 0]_vars

\* The user declined the restart after a batch that handed entries to the
\* Plugin Processor: no restart is requested.
RestartDeclined ==
    /\ last_answer = [box |-> "restart", value |-> "No"]
    /\ mloc.processed_count > 0
    /\ ~restart_requested

\* The first fetch callback of the process, entered with no plugin
\* installed, auto-install enabled in the host configuration and a catalog
\* whose entries all classify as NEW.
FirstPass == \A r \in RefreshIds : r > 1 => rpc[r] = "unstarted"

AllRows(status) ==
    /\ plugin_model # << >>
    /\ \A i \in 1..Len(plugin_model) : plugin_model[i].status = status

ScenarioA ==
    /\ mpc # "idle"
    /\ FirstPass
    /\ IsEnabling(environ.install)
    /\ installed_plugins = << >>
    /\ AllRows("NEW")

Occurrences(name, seq) == Cardinality({k \in 1..Len(seq) : seq[k] = name})

\* C11: on the first pass, with nothing installed, auto-install enabled and
\* every entry NEW, no conflict prompt comes up, every batch ends with the
\* restart message box, and when the pass is over every entry was handed
\* to the Plugin Processor exactly once.
FirstPassProcessesEachEntryOnce ==
    [][ScenarioA =>
          /\ mpc' \notin {"incompat_box", "deprec_box"}
          /\ mpc = "auto_loop" /\ mpc' \notin {"auto_loop", "auto_process"}
                 => mpc' = "restart_box"
          /\ mpc' = "idle"
                 => \A i \in 1..Len(plugin_model) :
                        Occurrences(plugin_model[i].name, mloc.calls) = 1]_vars

\* C12: while every row of the lists is UP_TO_DATE, the UI thread is not
\* in the auto-processing loop, in the Plugin Processor or at the restart
\* message box, and the running pass has handed nothing to the Plugin
\* Processor and made no progress call.
UpToDateMeansNoAction ==
    AllRows("UP_TO_DATE") =>
        /\ mpc \notin {"auto_loop", "auto_process", "restart_box"}
        /\ mloc.calls = << >>
        /\ mloc.progress = << >>

\* A pass found every row UP_TO_DATE and is about to set _initialised.
NothingToProcess == AllRows("UP_TO_DATE") /\ mpc = "l301"

\* C13: in an auto-processing batch the progress callback has been called
\* once for every entry that was processed, success or failure, the k-th
\* call carrying index k, the total, the action and the k-th entry.
ProgressAfterEachEntry ==
    /\ Len(mloc.progress) = Len(mloc.log)
    /\ \A k \in 1..Len(mloc.progress) :
           mloc.progress[k] =
               [index |-> k, total |-> Len(mloc.todo),
                action |-> IF mloc.todo[k].status = "UPDATE"
                           THEN "Updating" ELSE "Installing",
                name |-> mloc.todo[k].name, version |-> mloc.todo[k].version]

\* ====================================================== self-update flow
\* main_connect (__main__.py) and the update dialog (ui/update_dialog.py),
\* all on the UI thread.  The download runs inside the click handler; the
\* user's clicks reach the progress dialog only where the handler calls
\* processEvents.  The progress dialog is modal, so the buttons of the
\* update dialog are out of reach while it is shown.

plugin_manager == << environ, disk, remote, initialised, installed_plugins,
                     plugin_model, plugins_to_install, apply_enabled,
                     busy_overlay, blocking_overlay, queue, mpc, mloc, rpc,
                     apc, aloc, restart_requested, last_answer, auto_runs,
                     overlap, exceptions >>

ReleasesPage == <<"github", "releases">>

\* str.endswith with a tuple of suffixes
EndsWith(url, suffixes) == url # << >> /\ url[Len(url)] \in suffixes

\* str.replace
Replace(url, old, new) ==
    [i \in 1..Len(url) |-> IF url[i] = old THEN new ELSE url[i]]

\* str.rstrip('/')
RECURSIVE RStripSlash(_)
RStripSlash(url) ==
    IF EndsWith(url, {"/"})
    THEN RStripSlash(SubSeq(url, 1, Len(url) - 1))
    ELSE url

\* The key of download_urls that _get_platform_specific_download_url reads
\* on a system.
PlatformId(system) ==
    CASE system = "darwin" -> "macos"
      [] system = "windows" -> "windows"
      [] system = "linux" -> "linux"
      [] OTHER -> "none"

\* The fallback of _get_platform_specific_download_url: the base URL
\* rewritten for the system.
DerivedUrl(base_url, system) ==
    CASE system = "windows" ->
           IF EndsWith(base_url, {".dmg"})
           THEN Replace(base_url, ".dmg", ".exe")
           ELSE LET b == Replace(Replace(base_url, "macos", "windows"),
                                 "darwin", "windows")
                IN  IF EndsWith(b, {".exe", ".msi"}) THEN b
                    ELSE Append(RStripSlash(b), ".exe")
      [] system = "linux" ->
           IF EndsWith(base_url, {".dmg"})
           THEN Replace(base_url, ".dmg", ".tar.gz")
           ELSE LET b == Replace(Replace(base_url, "macos", "linux"),
                                 "darwin", "linux")
                IN  IF EndsWith(b, {".tar.gz", ".deb", ".rpm", ".appimage"})
                    THEN b
                    ELSE Append(RStripSlash(b), ".tar.gz")
      [] system = "darwin" ->
           IF EndsWith(base_url, {".dmg"}) THEN base_url
           ELSE Append(RStripSlash(base_url), ".dmg")
      [] OTHER -> base_url

\* UpdateDialog._get_platform_specific_download_url; the empty URL is None.
GetPlatformSpecificDownloadUrl(info, system) ==
    IF PlatformId(system) \in DOMAIN info.download_urls
    THEN info.download_urls[PlatformId(system)]
    ELSE IF info.download_url = << >> THEN << >>
    ELSE DerivedUrl(info.download_url, system)

\* self.update_info of the dialog that is open
UpdateInfo == main.pending_update_info[1]

\* UpdateDialog._on_manual_download_clicked
ManualDownload(u) ==
    [u EXCEPT !.browser = Append(@, IF UpdateInfo.download_url # << >>
                                    THEN UpdateInfo.download_url
                                    ELSE ReleasesPage),
              !.user_choice = "manual_download",
              !.pc = "accepted"]

\* UpdateDialog._on_auto_update_clicked up to the call of
\* download_file_with_progress.
AutoUpdate(u) ==
    IF UpdateInfo.download_url = << >> THEN ManualDownload(u)
    ELSE LET url == GetPlatformSpecificDownloadUrl(UpdateInfo, host.system)
         IN  IF url = << >>
             THEN ManualDownload([u EXCEPT !.progress_dialog = TRUE])
             ELSE [u EXCEPT !.progress_dialog = TRUE,
                            !.attempts = @ + 1,
                            !.temp_files = Append(@, TRUE),
                            !.cancelled = FALSE,
                            !.cancel_at = << >>,
                            !.download_url = url,
                            !.total_size = 0,
                            !.chunks = << >>,
                            !.written = << >>,
                            !.callbacks = 0,
                            !.success = FALSE,
                            !.pc = "l472"]

\* the temporary file of the running attempt is left where it is
KeepTempFile(u) == u

\* os.unlink(temp_file.name) of the running attempt
Unlink(u) == [u EXCEPT !.temp_files[u.attempts] = FALSE]

\* the except branch opens the artifact on macOS and Windows only
FallbackWithoutXdgOpen(system, script_ok) ==
    IF system \in {"darwin", "windows", "linux"} /\ script_ok
    THEN "script"
    ELSE IF system \in {"darwin", "windows"}
    THEN "opened"
    ELSE "logged"

\* UpdateDialog._start_deferred_installation: the script is created and
\* launched, or that raises (script_ok is false, or the platform is not
\* supported) and the except branch opens the artifact where it knows how.
StartDeferredInstallation(system, script_ok) ==
    IF system \in {"darwin", "windows", "linux"} /\ script_ok
    THEN "script"
    ELSE IF system \in {"darwin", "windows", "linux"}
    THEN "opened"
    ELSE "logged"

\* ---- main_connect
\* Lines 113-127 raise: each branch reads update_info['message'] first.
ResultRaises(info) == ~info.message

\* _pending_update_info is stored in silent mode too
PendingInSilentToo(info, silent, pending) ==
    IF info.has_update /\ info.message
    THEN << info >>
    ELSE pending

\* _pending_update_info is stored before the message is read
PendingBeforeMessage(info, silent, pending) ==
    IF info.has_update /\ ~silent
    THEN << info >>
    ELSE pending

\* _pending_update_info after lines 113-127
Pending(info, silent, pending) ==
    IF info.has_update /\ info.message /\ ~silent
    THEN << info >>
    ELSE pending

\* lines 103-131: the update check and the handling of its result
CheckForUpdate ==
    /\ main.pc = "l103"
    /\ \/ /\ host.skip_version_check
          /\ main' = [main EXCEPT !.pc = "l134"]
       \/ /\ ~host.skip_version_check
          /\ \/ \* check_connect_version_update raises
                main' = [main EXCEPT !.pc = "l134", !.checks = @ + 1,
                                     !.check_error = TRUE]
             \/ \E info \in UpdateInfos :
                  main' = [main EXCEPT
                      !.pc = "l134",
                      !.checks = @ + 1,
                      !.update_info = << info >>,
                      !.check_error = ResultRaises(info),
                      !.pending_update_info =
                          Pending(info, host.silent, @)]
    /\ UNCHANGED << plugin_manager, host, upd, call >>

\* line 134
CreateTargetPluginDirectory ==
    /\ main.pc = "l134"
    /\ main' = [main EXCEPT !.pc = "l172", !.plugin_directory = TRUE]
    /\ UNCHANGED << plugin_manager, host, upd, call >>

\* lines 172-202
ConstructApplication ==
    /\ main.pc = "l172"
    /\ main' = [main EXCEPT !.pc = "l205", !.application = TRUE]
    /\ UNCHANGED << plugin_manager, host, upd, call >>

\* lines 205-215, UpdateDialog.show_dialog up to exec_
ShowUpdateDialog ==
    /\ main.pc = "l205"
    /\ IF main.pending_update_info # << >>
       THEN /\ main' = [main EXCEPT !.pc = "l210"]
            /\ upd' = [UpdClosed EXCEPT !.pc = "dialog"]
       ELSE /\ main' = [main EXCEPT !.pc = "l226"]
            /\ UNCHANGED upd
    /\ UNCHANGED << plugin_manager, host, call >>

\* UpdateDialog.show_dialog after exec_, and main_connect up to
\* application.exec_()
ShowDialogReturn ==
    /\ main.pc = "l210"
    /\ upd.pc \in {"accepted", "rejected"}
    /\ upd' = [upd EXCEPT !.pc = "closed",
                          !.user_choice = IF upd.pc = "rejected"
                                          THEN "continue" ELSE @]
    /\ main' = [main EXCEPT !.pc = "l226"]
    /\ UNCHANGED << plugin_manager, host, call >>

\* ---- the update dialog
\* _on_skip_clicked
OnSkipClicked ==
    /\ upd.pc = "dialog"
    /\ upd' = [upd EXCEPT !.user_choice = "skip", !.pc = "accepted"]
    /\ UNCHANGED << plugin_manager, host, main, call >>

\* _on_continue_clicked
OnContinueClicked ==
    /\ upd.pc = "dialog"
    /\ upd' = [upd EXCEPT !.user_choice = "continue", !.pc = "accepted"]
    /\ UNCHANGED << plugin_manager, host, main, call >>

\* The user closes the dialog without clicking a button.
DialogClosed ==
    /\ upd.pc = "dialog"
    /\ upd' = [upd EXCEPT !.pc = "rejected"]
    /\ UNCHANGED << plugin_manager, host, main, call >>

\* _on_auto_update_clicked, lines 423-470
OnAutoUpdateClicked ==
    /\ upd.pc = "dialog"
    /\ upd.attempts < MaxDownloads
    /\ upd' = AutoUpdate(upd)
    /\ UNCHANGED << plugin_manager, host, main, call >>

\* download_file_with_progress, lines 105-109: the request is sent, and it
\* fails or the response headers arrive, with or without content-length.
DownloadStart ==
    /\ upd.pc = "l472"
    /\ \/ upd' = [upd EXCEPT !.pc = "l476", !.success = FALSE]
       \/ \E total_size \in {0, MaxChunks} :
            upd' = [upd EXCEPT !.pc = "l112", !.total_size = total_size]
    /\ UNCHANGED << plugin_manager, host, main, call >>

\* One turn of the loop at lines 112-122, with progress_callback (lines
\* 462-465): a chunk of size bytes is fetched; click tells whether the user
\* clicks Cancel while processEvents runs.
DownloadChunk ==
    /\ upd.pc = "l112"
    /\ Len(upd.chunks) < MaxChunks
    /\ \E size \in 0..1, click \in BOOLEAN :
         LET called == size > 0 /\ upd.total_size > 0
             events == called /\ ~upd.cancelled
         IN  /\ click => events
             /\ upd' = [upd EXCEPT
                    !.chunks = Append(@, size),
                    !.written = IF size > 0 THEN Append(@, size) ELSE @,
                    !.callbacks = IF called THEN @ + 1 ELSE @,
                    !.cancelled = IF events /\ click THEN TRUE ELSE @,
                    !.cancel_at = IF events /\ click
                                  THEN << Len(upd.chunks) + 1 >> ELSE @]
    /\ UNCHANGED << plugin_manager, host, main, call >>

\* The stream breaks: iter_content raises, line 126 returns False.
DownloadRaise ==
    /\ upd.pc = "l112"
    /\ upd' = [upd EXCEPT !.pc = "l476", !.success = FALSE]
    /\ UNCHANGED << plugin_manager, host, main, call >>

\* The stream ends: line 124 returns True.
DownloadReturn ==
    /\ upd.pc = "l112"
    /\ upd' = [upd EXCEPT !.pc = "l476", !.success = TRUE]
    /\ UNCHANGED << plugin_manager, host, main, call >>

\* lines 476-648 with the installation started as soon as the download
\* has returned success
AfterDownloadInstalls ==
    /\ upd.pc = "l476"
    /\ \/ /\ upd.cancelled
          /\ upd' = [Unlink(upd) EXCEPT !.progress_dialog = FALSE,
                                        !.pc = "dialog"]
       \/ /\ ~upd.cancelled
          /\ upd.success
          /\ \E script_ok \in BOOLEAN :
               upd' = [upd EXCEPT
                   !.progress_dialog = FALSE,
                   !.installer = StartDeferredInstallation(host.system,
                                                           script_ok),
                   !.user_choice = "auto_updated",
                   !.pc = "accepted"]
       \/ /\ ~upd.cancelled
          /\ ~upd.success
          /\ upd' = [upd EXCEPT !.progress_dialog = FALSE,
                                !.boxes = Append(@, "Download Error"),
                                !.pc = "l648"]
    /\ UNCHANGED << plugin_manager, host, main, call >>

\* _on_auto_update_clicked, lines 476-544 and 623-648; click tells whether
\* the user clicks Cancel in one of the processEvents calls of lines
\* 489-508.
AfterDownload ==
    /\ upd.pc = "l476"
    /\ \/ /\ upd.cancelled
          /\ upd' = [Unlink(upd) EXCEPT !.progress_dialog = FALSE,
                                        !.pc = "dialog"]
       \/ /\ ~upd.cancelled
          /\ upd.success
          /\ \E click \in BOOLEAN :
               upd' = [upd EXCEPT !.cancelled = click,
                                  !.progress_dialog = FALSE,
                                  !.boxes = Append(@, "Update Ready"),
                                  !.pc = "l544"]
       \/ /\ ~upd.cancelled
          /\ ~upd.success
          /\ upd' = [upd EXCEPT !.progress_dialog = FALSE,
                                !.boxes = Append(@, "Download Error"),
                                !.pc = "l648"]
    /\ UNCHANGED << plugin_manager, host, main, call >>

\* lines 544-561: the answer to the 'Update Ready' box
UpdateReadyAnswer ==
    /\ upd.pc = "l544"
    /\ \/ \E script_ok \in BOOLEAN :
            upd' = [upd EXCEPT
                !.installer = StartDeferredInstallation(host.system,
                                                        script_ok),
                !.user_choice = "auto_updated",
                !.pc = "accepted"]
       \/ upd' = [Unlink(upd) EXCEPT !.pc = "dialog"]
    /\ UNCHANGED << plugin_manager, host, main, call >>

\* lines 648-655: the answer to the 'Download Error' box
DownloadErrorAnswer ==
    /\ upd.pc = "l648"
    /\ \/ /\ upd.attempts < MaxDownloads
          /\ upd' = AutoUpdate(upd)
       \/ upd' = ManualDownload(upd)
       \/ upd' = [upd EXCEPT !.pc = "dialog"]
    /\ UNCHANGED << plugin_manager, host, main, call >>

\* A process at the first line of main_connect; the plugin manager is not
\* constructed before line 195 and does not run before application.exec_().
UpdateInit ==
    /\ environ = CHOOSE e \in Environments : TRUE
    /\ disk = CHOOSE d \in InitialDisks : TRUE
    /\ remote = Feed
    /\ Constructed
    /\ host \in Hosts
    /\ main = MainStart
    /\ upd = UpdClosed
    /\ call = NoCall

UpdateNext ==
    \/ CheckForUpdate
    \/ CreateTargetPluginDirectory
    \/ ConstructApplication
    \/ ShowUpdateDialog
    \/ ShowDialogReturn
    \/ OnSkipClicked
    \/ OnContinueClicked
    \/ DialogClosed
    \/ OnAutoUpdateClicked
    \/ DownloadStart
    \/ DownloadChunk
    \/ DownloadRaise
    \/ DownloadReturn
    \/ AfterDownload
    \/ UpdateReadyAnswer
    \/ DownloadErrorAnswer

UpdateSpec == UpdateInit /\ [][UpdateNext]_vars

\* The UI thread keeps running and the user answers every dialog.
FairUpdateSpec == UpdateSpec /\ WF_vars(UpdateNext)

\* ------------------------------------------------- self-update: properties
\* The platform of the process has an entry in download_urls.
HasPlatformUrl == PlatformId(host.system) \in DOMAIN UpdateInfo.download_urls

\* C14: when the user clicked Cancel while the download was running, the
\* update flow returns to the update dialog with the temporary file of that
\* download deleted and without showing a message box, whether the download
\* returned success or failure.
CancelledDownloadLeavesNothing ==
    [][ (upd.pc = "l476" /\ upd.cancel_at # << >>)
        => /\ upd'.pc = "dialog"
           /\ upd'.temp_files[upd.attempts] = FALSE
           /\ upd'.boxes = upd.boxes
           /\ upd'.browser = upd.browser ]_vars

\* C14, its case: a download that was cancelled after its first chunk and
\* then failed has returned.
CancelledFailedDownloadReturned ==
    /\ upd.pc = "dialog"
    /\ upd.cancel_at = << 1 >>
    /\ ~upd.success
    /\ upd.temp_files[upd.attempts] = FALSE

\* C15: once Cancel was clicked during a download, no further chunk is
\* fetched or written: the chunks fetched are those that had been fetched
\* when the click was handled.
CancelStopsTheDownload ==
    upd.cancel_at # << >> => Len(upd.chunks) = upd.cancel_at[1]

\* C16: while download_file_with_progress runs and when it has returned,
\* progress_callback has been called once for each non-empty chunk fetched,
\* with or without a content-length header.
CallbackPerChunk ==
    upd.pc \in {"l112", "l476"} => upd.callbacks = Len(upd.written)

\* C17: after the deferred-installation script was launched, the process is
\* asked to exit.
ScriptLaunchLeadsToExit ==
    (upd.installer = "script") ~> main.exit_requested

\* C18: when creating or launching the script failed, the artifact was
\* opened with the OS handler on macOS, Windows and Linux and only an error
\* was logged on any other platform, and the caller went on as after a
\* launch: the choice is 'auto_updated', the dialog is accepted and no
\* message box beyond 'Update Ready' was shown.
ScriptFailureFallsBack ==
    upd.installer \in {"opened", "logged"}
    => /\ host.system \in {"darwin", "windows", "linux"}
            => upd.installer = "opened"
       /\ host.system \notin {"darwin", "windows", "linux"}
            => upd.installer = "logged"
       /\ upd.user_choice = "auto_updated"
       /\ upd.pc \in {"accepted", "closed"}
       /\ upd.boxes[Len(upd.boxes)] = "Update Ready"

\* C18, its case: on Linux the script failed and the artifact was opened.
LinuxFallbackOpened ==
    /\ host.system = "linux"
    /\ upd.installer = "opened"
    /\ upd.pc = "closed"

\* C19: a click on the automatic update downloads from the URL that
\* download_urls holds for the platform whenever it holds one, and from a
\* URL derived from the base download_url only when it holds none.
PlatformUrlIsUsed ==
    [][ (upd.pc = "dialog" /\ upd.attempts < MaxDownloads
         /\ upd' = AutoUpdate(upd))
        => /\ HasPlatformUrl
                => /\ upd'.pc = "l472"
                   /\ upd'.download_url =
                        UpdateInfo.download_urls[PlatformId(host.system)]
           /\ (~HasPlatformUrl /\ upd'.pc = "l472")
                => upd'.download_url =
                     DerivedUrl(UpdateInfo.download_url, host.system) ]_vars

\* C20: when check_connect_version_update or the handling of its result
\* raised, no update is pending and no update dialog is ever shown, and
\* main_connect goes on to create the plugin directory and to construct
\* the application.
UpdateCheckNeverBlocks ==
    /\ [](main.check_error
            => main.pending_update_info = << >> /\ upd = UpdClosed)
    /\ main.check_error ~> (main.plugin_directory /\ main.application)

\* C20, its case: the one update check of the startup raised, in the call
\* or in the handling of its result, and main_connect has reached
\* application.exec_().
FailedCheckStarted ==
    /\ main.check_error
    /\ main.checks = 1
    /\ main.application
    /\ main.pc = "l226"

\* The update dialog has been shown in this startup.
DialogShown == upd # UpdClosed

\* The version check was not skipped, it returned a result that was handled
\* without an exception, the result reports an update and the process is
\* not in silent mode.
UpdateAnnounced ==
    /\ ~host.skip_version_check
    /\ main.update_info # << >>
    /\ ~main.check_error
    /\ main.update_info[1].has_update
    /\ ~host.silent

\* C21: check_connect_version_update is called at most once in a startup;
\* the update dialog is shown only if the check was not skipped, its result
\* reports an update and the process is not silent, and once main_connect
\* is past line 205 it has been shown in every such startup; in silent mode
\* no dialog is shown.
DialogIffUpdateAnnounced ==
    /\ main.checks <= 1
    /\ DialogShown => UpdateAnnounced
    /\ (main.pc \in {"l210", "l226"} /\ UpdateAnnounced) => DialogShown
    /\ host.silent => ~DialogShown

\* C21, its case: a silent startup whose check reported an update has
\* reached application.exec_() (without a dialog).
SilentUpdateOnlyLogged ==
    /\ host.silent
    /\ main.checks = 1
    /\ main.update_info # << >>
    /\ main.update_info[1].has_update
    /\ ~main.check_error
    /\ main.pc = "l226"

\* ======================================================= helper functions
\* The process while one helper function is called: the plugin manager is
\* constructed and idle, the startup is over, no update dialog is open.
Quiet ==
    /\ environ = CHOOSE e \in Environments : TRUE
    /\ disk = CHOOSE d \in InitialDisks : TRUE
    /\ remote = Feed
    /\ Constructed
    /\ host = [system |-> "linux", skip_version_check |-> TRUE,
               silent |-> FALSE]
    /\ main = MainRunning
    /\ upd = UpdClosed

process == << plugin_manager, host, main, upd >>

\* --------------------------------------------------- _is_newer_version
\* A string is the sequence of the code points of its characters.  Version
\* strings are made of '.' (46), '0' (48), '1' (49) and 'x' (120), a
\* character that no version may hold.
VersionChars == {46, 48, 49, 120}

VersionStrings ==
    UNION { [1..n -> VersionChars] : n \in 0..MaxVersionLen }

IsDigit(c) == c \in 48..57

\* Python's ordering of two strings and of two tuples of numbers: a > b
RECURSIVE SeqGreater(_, _)
SeqGreater(a, b) ==
    IF a = << >> THEN FALSE
    ELSE IF b = << >> THEN TRUE
    ELSE IF Head(a) # Head(b) THEN Head(a) > Head(b)
    ELSE SeqGreater(Tail(a), Tail(b))

\* str.split('.')
RECURSIVE SplitDots(_)
SplitDots(str) ==
    IF \A i \in 1..Len(str) : str[i] # 46 THEN << str >>
    ELSE LET i == CHOOSE j \in 1..Len(str) :
                    str[j] = 46 /\ \A k \in 1..(j - 1) : str[k] # 46
         IN  << SubSeq(str, 1, i - 1) >>
             \o SplitDots(SubSeq(str, i + 1, Len(str)))

\* int() of a string of digits
RECURSIVE Int(_)
Int(digits) ==
    IF digits = << >> THEN 0
    ELSE 10 * Int(SubSeq(digits, 1, Len(digits) - 1))
         + (digits[Len(digits)] - 48)

\* packaging.version.parse accepts the string: over VersionChars, the
\* strings N(.N)* of non-empty runs of digits; any other raises
\* InvalidVersion.
Parses(str) ==
    \A i \in 1..Len(SplitDots(str)) :
        /\ SplitDots(str)[i] # << >>
        /\ \A k \in 1..Len(SplitDots(str)[i]) : IsDigit(SplitDots(str)[i][k])

\* The release segment of a parsed version.
Release(str) == [i \in 1..Len(SplitDots(str)) |-> Int(SplitDots(str)[i])]

\* packaging compares releases with their trailing zeros removed.
RECURSIVE StripZeros(_)
StripZeros(release) ==
    IF release # << >> /\ release[Len(release)] = 0
    THEN StripZeros(SubSeq(release, 1, Len(release) - 1))
    ELSE release

\* The comparisons are >= instead of >.
IsNewerOrSameVersion(available, installed, packaging) ==
    IF packaging /\ Parses(available) /\ Parses(installed)
    THEN ~SeqGreater(StripZeros(Release(installed)),
                     StripZeros(Release(available)))
    ELSE ~SeqGreater(installed, available)

\* PluginManager._is_newer_version; packaging tells whether the packaging
\* library can be imported.
IsNewerVersion(available, installed, packaging) ==
    IF packaging /\ Parses(available) /\ Parses(installed)
    THEN SeqGreater(StripZeros(Release(available)),
                    StripZeros(Release(installed)))
    ELSE SeqGreater(available, installed)

\* A call of _is_newer_version that has not returned yet.
VersionCalls ==
    [fn : {"_is_newer_version"}, available : VersionStrings,
     installed : VersionStrings, packaging : BOOLEAN,
     returned : {FALSE}, result : {FALSE}]

IsNewerVersionReturn ==
    /\ call.fn = "_is_newer_version"
    /\ ~call.returned
    /\ call' = [call EXCEPT
           !.returned = TRUE,
           !.result = IsNewerVersion(call.available, call.installed,
                                     call.packaging)]
    /\ UNCHANGED process

VersionInit == Quiet /\ call \in VersionCalls

VersionNext == IsNewerVersionReturn

VersionSpec == VersionInit /\ [][VersionNext]_vars

\* Component i of a release, 0 beyond its end.
Component(release, i) == IF i <= Len(release) THEN release[i] ELSE 0

\* Component-wise numeric comparison of two releases: a > b
NumericGreater(a, b) ==
    \E i \in 1..(Len(a) + Len(b)) :
        /\ Component(a, i) > Component(b, i)
        /\ \A k \in 1..(i - 1) : Component(a, k) = Component(b, k)

\* C22: for two strings that both parse as dotted numeric versions
\* _is_newer_version returns the component-wise numeric comparison
\* available > installed, and when one of them does not parse it returns
\* the string comparison available > installed.
NewerMeansNumericallyGreater ==
    call.fn = "_is_newer_version" /\ call.returned
    => IF Parses(call.available) /\ Parses(call.installed)
       THEN call.result = NumericGreater(Release(call.available),
                                         Release(call.installed))
       ELSE call.result = SeqGreater(call.available, call.installed)

\* C23: _is_newer_version(v, v) is false for every string v, parseable or
\* not, with or without the packaging library.
SameVersionIsNotNewer ==
    (call.fn = "_is_newer_version" /\ call.returned
     /\ call.available = call.installed)
    => ~call.result

\* C23, its case: the call returned for twice the same string "1.x", which
\* is no version.
SameUnparseableCompared ==
    /\ call.fn = "_is_newer_version"
    /\ call.returned
    /\ call.available = << 49, 46, 120 >>
    /\ call.installed = call.available

\* ----------------------------------------------------- release notes
\* A line of the release notes, as line.strip() leaves it: kind tells how
\* it starts ("empty", "header" for '#', "item" for '- ' or '* ', "image"
\* for '![', "link" for '[', "text" for anything else), len is its length,
\* keyword tells whether it holds one of the improvement keywords.
NoteLine(kind, len, keyword) ==
    [kind |-> kind, len |-> len, keyword |-> keyword]

NoteLines ==
    { NoteLine("empty", 0, FALSE),
      NoteLine("header", 40, TRUE),
      NoteLine("item", 40, FALSE),
      NoteLine("item", 150, FALSE),
      NoteLine("image", 40, TRUE),
      NoteLine("image", 40, FALSE),
      NoteLine("link", 40, TRUE),
      NoteLine("text", 99, TRUE),
      NoteLine("text", 150, TRUE) }

\* A release-notes text is the sequence of its lines.
NoteTexts == UNION { [1..n -> NoteLines] : n \in 0..MaxLines }

\* An output line: the bullet made from line number line of the text by
\* the branch via ("item", "text" or "keyword"), or a fixed line (line 0).
Bullet(line, via) == [line |-> line, via |-> via]

\* The fixed texts of lines 279-282, 350-354 and 290.
GenericTwo == << Bullet(0, "features"), Bullet(0, "fixes") >>
GenericThree ==
    << Bullet(0, "features"), Bullet(0, "fixes"), Bullet(0, "security") >>
AndMore == Bullet(0, "more")

\* The branch of the loop at lines 306-327 that appends a bullet for the
\* line, "none" if no branch does.
BulletBranch(line) ==
    IF line.kind = "empty" \/ line.kind = "header" THEN "none"
    ELSE IF line.kind = "item" THEN "item"
    ELSE IF line.kind # "image" /\ line.kind # "link"
    THEN IF line.len < 100 THEN "text" ELSE "none"
    ELSE "none"

\* The test of the keyword loop, lines 340-346.
KeywordMatch(line) == line.keyword /\ line.len < 100

\* The bullets of the loop at lines 306-327, in line order.
RECURSIVE ExtractBullets(_, _)
ExtractBullets(lines, n) ==
    IF n = 0 THEN << >>
    ELSE ExtractBullets(lines, n - 1)
         \o (IF BulletBranch(lines[n]) # "none"
             THEN << Bullet(n, BulletBranch(lines[n])) >>
             ELSE << >>)

\* The bullets of the keyword loop at lines 339-346, in line order.
RECURSIVE ExtractKeywordLines(_, _)
ExtractKeywordLines(lines, n) ==
    IF n = 0 THEN << >>
    ELSE ExtractKeywordLines(lines, n - 1)
         \o (IF KeywordMatch(lines[n])
             THEN << Bullet(n, "keyword") >>
             ELSE << >>)

\* bullet_points[:limit]
FirstOf(bullet_points, limit) ==
    SubSeq(bullet_points, 1,
           IF Len(bullet_points) < limit THEN Len(bullet_points) ELSE limit)

\* UpdateDialog._parse_markdown_to_bullets: the lines of the text it
\* returns.
ParseMarkdownToBullets(lines) ==
    LET bullets == ExtractBullets(lines, Len(lines))
        keyworded == ExtractKeywordLines(lines, Len(lines))
    IN  IF bullets # << >> THEN FirstOf(bullets, 5)
        ELSE IF keyworded # << >> THEN FirstOf(keyworded, 5)
        ELSE GenericThree

\* not release_notes or not release_notes.strip()
IsBlank(lines) == \A i \in 1..Len(lines) : lines[i].kind = "empty"

\* The cut keeps five lines before the closing one.
LimitLinesKeepsFive(lines) ==
    IF Len(lines) >= 5 THEN SubSeq(lines, 1, 5) \o << AndMore >> ELSE lines

\* UpdateDialog._format_release_notes, lines 288-292, on the lines that
\* _parse_markdown_to_bullets returned.
LimitLines(lines) ==
    IF Len(lines) > 5 THEN SubSeq(lines, 1, 4) \o << AndMore >> ELSE lines

\* A call of _format_release_notes that has not returned yet.
NotesCalls ==
    [fn : {"_format_release_notes"}, release_notes : NoteTexts,
     pc : {"l275"}, parsed : {<< >>}, result : {<< >>}]

\* lines 277-282
FormatBlankNotes ==
    /\ call.fn = "_format_release_notes"
    /\ call.pc = "l275"
    /\ IsBlank(call.release_notes)
    /\ call' = [call EXCEPT !.pc = "returned", !.result = GenericTwo]
    /\ UNCHANGED process

\* line 285: the call of _parse_markdown_to_bullets
ParseNotes ==
    /\ call.fn = "_format_release_notes"
    /\ call.pc = "l275"
    /\ ~IsBlank(call.release_notes)
    /\ call' = [call EXCEPT
           !.pc = "l288",
           !.parsed = ParseMarkdownToBullets(call.release_notes)]
    /\ UNCHANGED process

\* lines 288-292
FormatParsedNotes ==
    /\ call.fn = "_format_release_notes"
    /\ call.pc = "l288"
    /\ call' = [call EXCEPT !.pc = "returned",
                            !.result = LimitLines(call.parsed)]
    /\ UNCHANGED process

NotesInit == Quiet /\ call \in NotesCalls

NotesNext == FormatBlankNotes \/ ParseNotes \/ FormatParsedNotes

NotesSpec == NotesInit /\ [][NotesNext]_vars

\* _parse_markdown_to_bullets has returned in the call.
NotesParsed ==
    call.fn = "_format_release_notes" /\ call.pc \in {"l288", "returned"}

\* The line of the release notes a bullet of the parsed output was made
\* from.
SourceLine(bullet) == call.release_notes[bullet.line]

\* The bullets of the parsed output that were made from a line of the text.
DerivedBullets ==
    { i \in 1..Len(call.parsed) : call.parsed[i].line > 0 }

\* C24: the text _format_release_notes returns has at most 5 lines, and
\* each of them is a bullet line: a bullet made from a line of the notes or
\* one of the fixed bullet lines.
AtMostFiveBulletLines ==
    (call.fn = "_format_release_notes" /\ call.pc = "returned")
    => /\ Len(call.result) <= 5
       /\ \A i \in 1..Len(call.result) :
            \/ /\ call.result[i].line \in 1..Len(call.release_notes)
               /\ call.result[i].via \in {"item", "text", "keyword"}
            \/ /\ call.result[i].line = 0
               /\ call.result[i].via
                    \in {"features", "fixes", "security", "more"}

\* C24, its case: notes of six list items were formatted to five lines.
SixItemsFormatted ==
    /\ call.fn = "_format_release_notes"
    /\ call.pc = "returned"
    /\ Len(call.release_notes) = 6
    /\ \A i \in 1..6 : call.release_notes[i].kind = "item"
    /\ Len(call.result) = 5

\* C25: no bullet of the output of _parse_markdown_to_bullets was made from
\* a line of 100 or more characters, list item or plain text.
LongLinesDropped ==
    NotesParsed
    => \A i \in DerivedBullets : SourceLine(call.parsed[i]).len < 100

\* C26: no bullet of the output of _parse_markdown_to_bullets was made from
\* a section header or from a line that starts with image or link
\* markdown, also when the keyword extraction ran.
HeadersImagesLinksDropped ==
    NotesParsed
    => \A i \in DerivedBullets :
         SourceLine(call.parsed[i]).kind \notin {"header", "image", "link"}

\* Release notes made of one image line and one paragraph of 150
\* characters.
ScenarioD ==
    /\ call.fn = "_format_release_notes"
    /\ Len(call.release_notes) = 2
    /\ \E i \in 1..2 :
         /\ call.release_notes[i].kind = "image"
         /\ call.release_notes[3 - i].kind = "text"
         /\ call.release_notes[3 - i].len = 150

\* C27: for release notes made of one image line and one paragraph of 150
\* characters the bullet extraction and the keyword extraction find
\* nothing and _parse_markdown_to_bullets returns the fixed three lines.
ScenarioDGetsGenericText ==
    (NotesParsed /\ ScenarioD)
    => /\ ExtractBullets(call.release_notes, 2) = << >>
       /\ ExtractKeywordLines(call.release_notes, 2) = << >>
       /\ call.parsed = GenericThree

\* C28: what show_dialog returns is one of 'download', 'skip' and
\* 'continue', whatever the user clicked and however the download went.
ChoiceIsDownloadSkipOrContinue ==
    (DialogShown /\ upd.pc = "closed")
    => upd.user_choice \in {"download", "skip", "continue"}

\* ------------------------------------- ManaStructure.get_resource_identifier
\* What entity['version'] and session.get('AssetVersion', version_id) can
\* be: NOT_SET, a version that is still in session.created, a committed
\* version whose link is empty, a committed version with a parent context.
VersionStates == {"NOT_SET", "created", "empty_link", "committed"}

\* The version side of a component: version is entity['version'], by_id the
\* version session.get finds for entity['version_id'] ("none" when
\* version_id is not set).
VersionLinks == [version : VersionStates,
                 by_id : {"none", "created", "empty_link", "committed"}]

NoContainer == [entity_type |-> "none"]

\* The containers a file component can be in.
Containers ==
    [entity_type : {"SequenceComponent", "ContainerComponent"},
     link : VersionLinks]

\* The entities handed to get_resource_identifier; "Asset" stands for every
\* entity type that is no component.
Entities ==
    [entity_type : {"FileComponent", "SequenceComponent",
                    "ContainerComponent", "Asset"},
     link : VersionLinks,
     container : {NoContainer} \cup Containers]

\* _get_parts, lines 45-48: the version the checks are made on.
ResolvedVersion(link) ==
    IF link.version = "NOT_SET" /\ link.by_id # "none"
    THEN link.by_id
    ELSE link.version

\* _get_parts takes a version that is still in session.created.
GetPartsTakesCreated(link) ==
    IF ResolvedVersion(link) = "NOT_SET" THEN "StructureError"
    ELSE IF ResolvedVersion(link) = "empty_link" THEN "StructureError"
    ELSE "parts"

\* ManaStructure._get_parts, lines 42-63: what the call ends with.
GetParts(link) ==
    IF ResolvedVersion(link) = "NOT_SET"
       \/ ResolvedVersion(link) = "created"
    THEN "StructureError"
    ELSE IF ResolvedVersion(link) = "empty_link" THEN "StructureError"
    ELSE "parts"

\* get_resource_identifier of a sequence or container component, lines
\* 261-284.
ComponentIdentifier(component) ==
    IF GetParts(component.link) = "parts" THEN "path" ELSE "StructureError"

\* ManaStructure.get_resource_identifier: what the call ends with.
GetResourceIdentifier(entity) ==
    IF entity.entity_type = "FileComponent"
    THEN IF entity.container # NoContainer
         THEN IF ComponentIdentifier(entity.container) # "path"
              THEN ComponentIdentifier(entity.container)
              ELSE IF entity.container.entity_type = "SequenceComponent"
              THEN "path"
              ELSE ComponentIdentifier(entity)
         ELSE ComponentIdentifier(entity)
    ELSE IF entity.entity_type \in {"SequenceComponent",
                                    "ContainerComponent"}
    THEN ComponentIdentifier(entity)
    ELSE "NotImplementedError"

\* A call of get_resource_identifier that has not ended yet.
StructureCalls ==
    [fn : {"get_resource_identifier"}, entity : Entities, pc : {"l219"},
     result : {"none"}]

\* The call returns the joined path.
GetResourceIdentifierReturn ==
    /\ call.fn = "get_resource_identifier"
    /\ call.pc = "l219"
    /\ GetResourceIdentifier(call.entity) = "path"
    /\ call' = [call EXCEPT !.pc = "returned", !.result = "path"]
    /\ UNCHANGED process

\* The call raises.
GetResourceIdentifierRaise ==
    /\ call.fn = "get_resource_identifier"
    /\ call.pc = "l219"
    /\ GetResourceIdentifier(call.entity) # "path"
    /\ call' = [call EXCEPT !.pc = "raised",
                            !.result = GetResourceIdentifier(call.entity)]
    /\ UNCHANGED process

StructureInit == Quiet /\ call \in StructureCalls

StructureNext == GetResourceIdentifierReturn \/ GetResourceIdentifierRaise

StructureSpec == StructureInit /\ [][StructureNext]_vars

\* The component is attached to a committed version with a parent context.
Attached(component) == ResolvedVersion(component.link) = "committed"

Supported(entity) ==
    entity.entity_type \in {"FileComponent", "SequenceComponent",
                            "ContainerComponent"}

\* The call of get_resource_identifier has ended.
IdentifierDone ==
    call.fn = "get_resource_identifier" /\ call.pc \in {"returned", "raised"}

SummaryCountsSuccesses ==
    mpc = "restart_box"
    => /\ mloc.processed_count = Occurrences("ok", mloc.log)
       /\ Occurrences("ok", mloc.log) > 0

\* C31: while _on_auto_install_update_callback runs, the entries it hands
\* to the Plugin Processor are the rows of the model that the flags select
\* (NEW and DOWNLOAD with auto-install, UPDATE with auto-update), in row
\* order; none of them is UP_TO_DATE; the entry being processed is the next
\* of them; and for every pair of flags their number is what
\* _count_plugins_to_process returns.
ProcessedAreTheSelectedRows ==
    /\ \A do_install, do_update \in BOOLEAN :
         /\ Len(PluginsToProcess(plugin_model, do_install, do_update))
              = CountPluginsToProcess(plugin_model, do_install, do_update)
         /\ \A i \in 1..Len(PluginsToProcess(plugin_model, do_install,
                                             do_update)) :
              PluginsToProcess(plugin_model, do_install,
                               do_update)[i].status # "UP_TO_DATE"
    /\ mpc \in {"auto_loop", "auto_process"}
       => /\ mloc.todo = PluginsToProcess(plugin_model,
                                          IsEnabling(auto_install),
                                          IsEnabling(auto_update))
          /\ mpc = "auto_process"
             => mloc.calls[Len(mloc.calls)]
                  = mloc.todo[Len(mloc.log) + 1].name

\* C31, its case: an entry is being processed while another row of the
\* model is up to date.
ProcessingBesideUpToDateRow ==
    /\ mpc = "auto_process"
    /\ \E i \in 1..Len(plugin_model) : plugin_model[i].status = "UP_TO_DATE"

\* C32: a download that returned success does not install at once: the
\* step after the download opens the 'Update Ready' box, and only for an
\* attempt that returned success and was not found cancelled, without
\* launching anything; _start_deferred_installation runs only as the
\* Install answer to that box, so never after a failed download unless a
\* later attempt succeeded; any other answer to the box deletes the
\* artifact and launches nothing.
InstallOnlyOnInstallClick ==
    [][/\ upd'.installer # upd.installer
          => /\ upd.pc = "l544"
             /\ upd.success
             /\ upd.boxes[Len(upd.boxes)] = "Update Ready"
             /\ upd'.user_choice = "auto_updated"
       /\ upd.pc = "l476" /\ upd'.pc = "l544"
          => /\ upd.success
             /\ ~upd.cancelled
             /\ upd'.installer = "none"
       /\ upd.pc = "l476" /\ ~upd.success
          => upd'.installer = "none" /\ upd'.pc # "l544"
       /\ upd.pc = "l544" /\ upd'.pc # "accepted"
          => /\ upd'.installer = "none"
             /\ ~upd'.temp_files[upd.attempts]]_vars

\* C32, its case: the first download failed, the retry succeeded, and the
\* user clicked Install in the 'Update Ready' box.
InstalledAfterRetry ==
    /\ upd.installer # "none"
    /\ upd.attempts = 2
    /\ upd.boxes = << "Download Error", "Update Ready" >>

\* C33: a run of on_apply_changes_confirmed_callback emits one terminal
\* signal, installation_done or installation_failed and never both: no run
\* has emitted two of them, and a run that has ended has emitted one.
OneTerminalSignalPerRun ==
    \A t \in ApplyIds :
        /\ Len(aloc[t].signals) <= 1
        /\ apc[t] = "end" => Len(aloc[t].signals) = 1

\* C34: within one pass (one refresh and its fetch callback) no entry is
\* handed to the Plugin Processor twice, whatever the order of the refresh
\* thread's steps and the fetch callback's.
EntryHandedAtMostOncePerPass ==
    \A k, n \in 1..Len(mloc.calls) : mloc.calls[k] = mloc.calls[n] => k = n

\* C35: when the worker thread of a user-applied batch calls
\* _emit_downloaded_plugins(self._plugins_to_install) after
\* installation_done, the list it passes is the list of the plugins that
\* were checked for the batch, under every order of the worker's steps and
\* the installation_done slot _reset_overlay.
TrackerGetsTheCheckedPlugins ==
    [][\A t \in ApplyIds :
          apc[t] = "l633" /\ apc'[t] # "l633"
              => plugins_to_install = aloc[t].batch]_vars

\* C36: the archive list that _on_apply_changes emits holds each plugin
\* name at most once, also for a plugin that is both incompatible and
\* deprecated.
ArchiveListHasNoDuplicates ==
    \A t \in ApplyIds :
        \A k, n \in 1..Len(aloc[t].archive) :
            aloc[t].archive[k] = aloc[t].archive[n] => k = n

\* C37: whenever _on_auto_update_clicked has returned (the UI thread is
\* back in the update dialog, or the dialog is accepted, rejected or
\* closed), no temporary artifact file of any attempt exists, except the
\* file of the last attempt when that attempt launched the deferred
\* installation.
NoTempFileLeftBehind ==
    upd.pc \in {"dialog", "accepted", "rejected", "closed"}
        => \A k \in 1..Len(upd.temp_files) :
               upd.temp_files[k]
                   => k = upd.attempts /\ upd.installer # "none"

\* -------------------------------------------------------- get_resolution_id
\* uuid.uuid4().int % 957
UuidModulus == 957

\* Calls of get_resolution_id with the same argument that are compared.
MaxResolutionCalls == 2

Resolution(name, id) == [resolution |-> name, id |-> id]

\* The "resolution_id" mapping of config.json, as a list of its items.
ResolutionConfigs ==
    { << Resolution("1080p", 1) >>,
      << Resolution("1080p", 1), Resolution("4k", 2) >> }

\* The resolution strings asked for (metadata.get("resolution")).
Resolutions == {"1080p", "4k", "8k"}

\* resolution in resolutions["resolution_id"]
Listed(config, resolution) ==
    \E i \in 1..Len(config) : config[i].resolution = resolution

\* get_resolution_id: the values one call can return. For a resolution
\* that is not listed the id is drawn from a fresh uuid4.
GetResolutionId(config, resolution) ==
    IF ~Listed(config, resolution)
    THEN {r + Len(config) : r \in 0..(UuidModulus - 1)}
    ELSE {config[i].id : i \in {j \in 1..Len(config) :
                                    config[j].resolution = resolution}}

\* _get_parts, Delivery branch: the name part built from the custom id,
\* the task name and the resolution id.
DeliveryPart(custom_id, task_name, id) == << custom_id, task_name, id >>

\* Calls of get_resolution_id with one config.json and one resolution;
\* result lists what the calls made so far returned.
ResolutionCalls ==
    [fn : {"get_resolution_id"}, config : ResolutionConfigs,
     resolution : Resolutions, result : {<< >>}]

\* One more call with a listed resolution returns.
GetResolutionIdListed ==
    /\ call.fn = "get_resolution_id"
    /\ Len(call.result) < MaxResolutionCalls
    /\ Listed(call.config, call.resolution)
    /\ \E id \in GetResolutionId(call.config, call.resolution) :
           call' = [call EXCEPT !.result = Append(@, id)]
    /\ UNCHANGED process

\* One more call with a resolution that is not listed returns.
GetResolutionIdGenerated ==
    /\ call.fn = "get_resolution_id"
    /\ Len(call.result) < MaxResolutionCalls
    /\ ~Listed(call.config, call.resolution)
    /\ \E id \in GetResolutionId(call.config, call.resolution) :
           call' = [call EXCEPT !.result = Append(@, id)]
    /\ UNCHANGED process

ResolutionInit == Quiet /\ call \in ResolutionCalls

ResolutionNext == GetResolutionIdListed \/ GetResolutionIdGenerated

ResolutionSpec == ResolutionInit /\ [][ResolutionNext]_vars

\* C38: with one config.json, two calls of get_resolution_id with the same
\* resolution string return the same id, listed or not, so the name part
\* of a Delivery component built from it is the same on every call.
ResolutionIdIsDeterministic ==
    call.fn = "get_resolution_id"
    => \A k, n \in 1..Len(call.result) :
           DeliveryPart("c1", "comp", call.result[k])
               = DeliveryPart("c1", "comp", call.result[n])

\* ------------------------------------------------ modify_application_launch
\* A path string is the sequence of its entries and separators.
\* os.path.abspath(os.path.join(os.path.dirname(__file__), "..", "location"))
LOCATION_DIRECTORY == << "/resource/location" >>

\* os.pathsep
PathSep == << ":" >>

\* The keys of an environment: the two that the hook sets and another one.
PathKeys == {"FTRACK_EVENT_PLUGIN_PATH", "PYTHONPATH"}
EnvKeys == PathKeys \cup {"HOME"}

\* Values an environment holds before the call: '', '/a', '/a:/b'.
EnvValues == { << >>, << "/a" >>, << "/a", ":", "/b" >> }

\* A dict of the launcher's environment: its keys and their values (the
\* value of a key it does not hold is written as '').
Environment(keys, value) == [keys |-> keys, value |-> value]

EmptyEnvironment == Environment({}, [k \in EnvKeys |-> << >>])

EnvDicts ==
    { Environment(keys, value) :
          keys \in SUBSET EnvKeys, value \in [EnvKeys -> EnvValues] }

\* A dict with every value of a key it does not hold written as ''.
EnvironmentDicts ==
    { d \in EnvDicts : \A k \in EnvKeys \ d.keys : d.value[k] = << >> }

\* An event: data is "absent" (no 'data' key), "None" or "dict"; options,
\* within a data dict, is "absent", "dict", "None", "str" or "list"; env,
\* within an options dict, is "absent" or "dict", and environment is that
\* dict: the environment of the launched application, strings by name.
LaunchEvent(data, options, env, environment) ==
    [data |-> data, options |-> options, env |-> env,
     environment |-> environment]

Events ==
    { LaunchEvent(data, "absent", "absent", EmptyEnvironment) :
          data \in {"absent", "None"} }
    \cup { LaunchEvent("dict", options, "absent", EmptyEnvironment) :
               options \in {"absent", "dict", "None", "str", "list"} }
    \cup { LaunchEvent("dict", "dict", "dict", d) : d \in EnvironmentDicts }

\* os.pathsep.join([a, b])
Join(a, b) == a \o PathSep \o b

\* append_path with the previous value thrown away
AppendPathOverwrites(path, key, environment) ==
    Environment(environment.keys \cup {key},
                [environment.value EXCEPT ![key] = path])

\* append_path
AppendPath(path, key, environment) ==
    IF key \in environment.keys
    THEN Environment(environment.keys,
                     [environment.value EXCEPT ![key] = Join(@, path)])
    ELSE Environment(environment.keys \cup {key},
                     [environment.value EXCEPT ![key] = path])

\* modify_application_launch, lines 33-58: "env" when the environment
\* dictionary is reached, else the exception raised on the way.
ReachEnvironment(event) ==
    IF event.data = "absent" THEN "KeyError"
    ELSE IF event.data = "None" THEN "TypeError"
    ELSE IF event.options \in {"None", "str", "list"} THEN "TypeError"
    ELSE "env"

\* modify_application_launch, lines 60-62: the event with both paths
\* appended to options.env, which is created where it was missing.
WithPaths(event) ==
    LaunchEvent("dict", "dict", "dict",
        AppendPath(LOCATION_DIRECTORY, "PYTHONPATH",
            AppendPath(LOCATION_DIRECTORY, "FTRACK_EVENT_PLUGIN_PATH",
                       event.environment)))

\* A call of modify_application_launch that has not ended yet; result is
\* the event as the call leaves it.
HookCalls ==
    { [fn |-> "modify_application_launch", event |-> e, pc |-> "l32",
       result |-> e, logged |-> "none"] : e \in Events }

\* The try block runs to its end (line 64).
ModifyApplicationLaunchReturn ==
    /\ call.fn = "modify_application_launch"
    /\ call.pc = "l32"
    /\ ReachEnvironment(call.event) = "env"
    /\ call' = [call EXCEPT !.pc = "returned",
                            !.result = WithPaths(call.event),
                            !.logged = "info"]
    /\ UNCHANGED process

\* The try block raises; lines 67-69 log the exception and the call
\* returns.
ModifyApplicationLaunchExcept ==
    /\ call.fn = "modify_application_launch"
    /\ call.pc = "l32"
    /\ ReachEnvironment(call.event) # "env"
    /\ call' = [call EXCEPT !.pc = "returned",
                            !.logged = ReachEnvironment(call.event)]
    /\ UNCHANGED process

HookInit == Quiet /\ call \in HookCalls

HookNext == ModifyApplicationLaunchReturn \/ ModifyApplicationLaunchExcept

HookSpec == HookInit /\ [][HookNext]_vars

\* The value ends with LOCATION_DIRECTORY.
EndsWithLocation(value) ==
    /\ Len(value) >= Len(LOCATION_DIRECTORY)
    /\ SubSeq(value, Len(value) - Len(LOCATION_DIRECTORY) + 1, Len(value))
         = LOCATION_DIRECTORY

\* C39: a call of modify_application_launch ends by returning. For an
\* event whose data is a dict with options absent or a dict, options.env
\* then holds FTRACK_EVENT_PLUGIN_PATH and PYTHONPATH with a value that
\* ends with LOCATION_DIRECTORY and is the previous value, the path
\* separator and LOCATION_DIRECTORY where the key was held before, and
\* every other key is as it was. For an event without data, or with options
\* that is not a dict, the event is as it was.
LaunchEnvironmentGetsThePaths ==
    (call.fn = "modify_application_launch" /\ call.pc # "l32")
    => /\ call.pc = "returned"
       /\ (call.event.data = "dict"
           /\ call.event.options \in {"absent", "dict"})
          => /\ call.result.options = "dict"
             /\ call.result.env = "dict"
             /\ \A k \in PathKeys :
                  /\ k \in call.result.environment.keys
                  /\ EndsWithLocation(call.result.environment.value[k])
                  /\ k \in call.event.environment.keys
                     => call.result.environment.value[k]
                          = call.event.environment.value[k] \o PathSep
                              \o LOCATION_DIRECTORY
             /\ \A k \in EnvKeys \ PathKeys :
                  /\ k \in call.result.environment.keys
                       <=> k \in call.event.environment.keys
                  /\ call.result.environment.value[k]
                       = call.event.environment.value[k]
       /\ (call.event.data = "absent"
           \/ call.event.options \notin {"absent", "dict"})
          => call.result = call.event

\* C39, its case: the call has returned for an event whose options.env held
\* PYTHONPATH and another key, but not FTRACK_EVENT_PLUGIN_PATH.
PathsAddedToLaunchEnvironment ==
    /\ call.fn = "modify_application_launch"
    /\ call.pc = "returned"
    /\ call.event.environment.keys = {"PYTHONPATH", "HOME"}
    /\ call.event.environment.value["PYTHONPATH"] = << "/a", ":", "/b" >>
    /\ call.result.environment.value["PYTHONPATH"]
         = << "/a", ":", "/b", ":", "/resource/location" >>
====
